---- MODULE Spec2Model ----
(***************************************************************************)
(* ThoughtLink supervisory control core: gesture recognizer, gear state    *)
(* machine, command fusion, waypoint autopilot, grid path planner and the  *)
(* 10 Hz control loop that ties them together.                             *)
(*                                                                         *)
(* Time is an integer count of quarter seconds (the value time.time()      *)
(* returns, scaled by 4): every threshold of the program is a multiple of  *)
(* 0.25 s.  Python's None is the string "None"; an absent record is a      *)
(* record of the same shape whose discriminating field is None.            *)
(***************************************************************************)
EXTENDS Integers, Sequences, FiniteSets, TLC

None == "None"

(***************************************************************************)
(* Program constants (quarter seconds).                                    *)
(***************************************************************************)
VOICE_OVERRIDE_HOLD_S == 8
CANCEL_CONFIRM_TIMEOUT_S == 20
QUICK_CLENCH_MAX_S == 6
LONG_HOLD_THRESHOLD_S == 16
DOUBLE_CLENCH_WINDOW_S == 4
SELECT_WINDOW_S == 8
RECLENCH_WINDOW_S == 8

GEAR_CYCLE == <<"NEUTRAL", "FORWARD", "REVERSE", "ORCHESTRATE">>
ORCHESTRATION_ACTIONS == <<"MOVE_TO", "CARRY_TO", "STACK_TO">>
FACTORY_WAYPOINT_ORDER ==
  <<"Shelf A", "Shelf B", "Conveyor", "Table", "Pallet 1", "Pallet 2">>

RobotIds == <<"robot_0", "robot_1", "robot_2">>
Robots == {RobotIds[i] : i \in 1..Len(RobotIds)}

\* _DEFAULT_ROBOTS (robot_manager.py lines 11-15), in quarter metres
DefaultPositions ==
  [r \in Robots |-> CASE r = "robot_0" -> <<0, 0>>
                      [] r = "robot_1" -> <<-12, 12>>
                      [] r = "robot_2" -> <<12, 12>>]

\* the latency history keeps its last LatencyWindow entries; lat is its length
LatencyWindow == 100

(***************************************************************************)
(* GearStateMachine (backend/state_machine.py).  A state machine is the    *)
(* record of RobotState's control fields, _gear_index and _orch.           *)
(***************************************************************************)
OrchestrationState ==
  [phase |-> "SELECTING_ACTION", action_index |-> 0, landmark_index |-> 0]

GearStateMachine ==
  [gear |-> "NEUTRAL", holding_item |-> FALSE,
   toggled_action |-> None, toggled_class |-> None,
   gear_index |-> 0, orch |-> OrchestrationState]

NoTask ==
  [action |-> None, landmark |-> None, action_index |-> 0, landmark_index |-> 0]

NoGesture ==
  [gesture_type |-> None, brain_class |-> None, duration_s |-> 0,
   select_direction |-> None]

GestureEvent(gt, bc, d, dir) ==
  [gesture_type |-> gt, brain_class |-> bc, duration_s |-> d,
   select_direction |-> dir]

_enter_orchestration(s) == [s EXCEPT !.orch = OrchestrationState]

\* leaving ORCHESTRATE with the selection kept
ExitKeepsSelection(s) == s

_exit_orchestration(s) == [s EXCEPT !.orch = OrchestrationState]

\* a shift that stops at the last gear instead of wrapping round
ShiftGearNoWrap(s) ==
  LET idx == IF s.gear_index + 1 < Len(GEAR_CYCLE) THEN s.gear_index + 1
             ELSE s.gear_index
      new_gear == GEAR_CYCLE[idx + 1]
      s1 == [s EXCEPT !.gear_index = idx, !.gear = new_gear]
  IN  IF s.gear # "ORCHESTRATE" /\ new_gear = "ORCHESTRATE"
        THEN _enter_orchestration(s1)
      ELSE s1

shift_gear(s) ==
  LET idx == (s.gear_index + 1) % Len(GEAR_CYCLE)
      new_gear == GEAR_CYCLE[idx + 1]
      s1 == [s EXCEPT !.gear_index = idx, !.gear = new_gear]
  IN  IF s.gear # "ORCHESTRATE" /\ new_gear = "ORCHESTRATE"
        THEN _enter_orchestration(s1)
      ELSE IF s.gear = "ORCHESTRATE" /\ new_gear # "ORCHESTRATE"
        THEN _exit_orchestration(s1)
      ELSE s1

GearIndexOf(gear) == CHOOSE i \in 0..(Len(GEAR_CYCLE) - 1) : GEAR_CYCLE[i + 1] = gear

set_gear(s, gear) ==
  LET s1 == [s EXCEPT !.gear = gear, !.gear_index = GearIndexOf(gear)]
  IN  IF s.gear # "ORCHESTRATE" /\ gear = "ORCHESTRATE"
        THEN _enter_orchestration(s1)
      ELSE IF s.gear = "ORCHESTRATE" /\ gear # "ORCHESTRATE"
        THEN _exit_orchestration(s1)
      ELSE s1

_peek_grab(s) == IF s.holding_item THEN "RELEASE" ELSE "GRAB"

_resolve_class_to_action(s, brain_class) ==
  IF brain_class = "Right Fist" THEN "ROTATE_RIGHT"
  ELSE IF brain_class \in {"Left Fist", "Left First"} THEN "ROTATE_LEFT"
  ELSE IF brain_class \in {"Both Fists", "Both Firsts"} THEN
         IF s.gear = "FORWARD" THEN "MOVE_FORWARD"
         ELSE IF s.gear = "REVERSE" THEN "MOVE_BACKWARD"
         ELSE _peek_grab(s)
  ELSE "IDLE"

\* `self.state.toggled_action or RobotAction.IDLE`
ToggledOrIdle(s) == IF s.toggled_action # None THEN s.toggled_action ELSE "IDLE"

_orch_cycle(s, direction) ==
  IF s.orch.phase = "SELECTING_ACTION"
    THEN [s EXCEPT !.orch.action_index =
                     (@ + direction) % Len(ORCHESTRATION_ACTIONS)]
    ELSE [s EXCEPT !.orch.landmark_index =
                     (@ + direction) % Len(FACTORY_WAYPOINT_ORDER)]

\* a confirm that dispatches the task and keeps the selection
OrchConfirmKeepsSelection(s) ==
  IF s.orch.phase = "SELECTING_ACTION"
    THEN [sm |-> [s EXCEPT !.orch.phase = "SELECTING_LANDMARK"], task |-> NoTask]
    ELSE [sm |-> s,
          task |-> [action |-> ORCHESTRATION_ACTIONS[s.orch.action_index + 1],
                    landmark |-> FACTORY_WAYPOINT_ORDER[s.orch.landmark_index + 1],
                    action_index |-> s.orch.action_index,
                    landmark_index |-> s.orch.landmark_index]]

\* returns the new machine and the task (NoTask when only the phase advances)
_orch_confirm(s) ==
  IF s.orch.phase = "SELECTING_ACTION"
    THEN [sm |-> [s EXCEPT !.orch.phase = "SELECTING_LANDMARK"], task |-> NoTask]
    ELSE [sm |-> [s EXCEPT !.orch = OrchestrationState],
          task |-> [action |-> ORCHESTRATION_ACTIONS[s.orch.action_index + 1],
                    landmark |-> FACTORY_WAYPOINT_ORDER[s.orch.landmark_index + 1],
                    action_index |-> s.orch.action_index,
                    landmark_index |-> s.orch.landmark_index]]

_orch_cancel(s) ==
  IF s.orch.phase = "SELECTING_LANDMARK"
    THEN [s EXCEPT !.orch.phase = "SELECTING_ACTION"]
    ELSE [s EXCEPT !.orch = OrchestrationState]

Result0 ==
  [action |-> "IDLE", toggle_changed |-> FALSE,
   orchestration_event |-> None, orchestration_task |-> NoTask]

_handle_orchestrate_gesture(s, gesture) ==
  LET gt == gesture.gesture_type
      bc == gesture.brain_class
      r == IF gt = "QUICK_CLENCH" THEN
             IF bc = "Right Fist"
               THEN [sm |-> _orch_cycle(s, 1), ev |-> "cycle", task |-> NoTask]
             ELSE IF bc \in {"Left Fist", "Left First"}
               THEN [sm |-> _orch_cycle(s, -1), ev |-> "cycle", task |-> NoTask]
             ELSE [sm |-> s, ev |-> None, task |-> NoTask]
           ELSE IF gt = "HOLD_MEDIUM" THEN
             IF bc \in {"Both Fists", "Both Firsts"}
               THEN LET c == _orch_confirm(s)
                    IN  IF c.task # NoTask
                          THEN [sm |-> c.sm, ev |-> "dispatch", task |-> c.task]
                          ELSE [sm |-> c.sm, ev |-> "confirm", task |-> NoTask]
               ELSE [sm |-> s, ev |-> None, task |-> NoTask]
           ELSE IF gt = "DOUBLE_CLENCH" THEN
             IF bc \in {"Both Fists", "Both Firsts"}
               THEN [sm |-> _orch_cancel(s), ev |-> "cancel", task |-> NoTask]
               ELSE [sm |-> s, ev |-> None, task |-> NoTask]
           ELSE [sm |-> s, ev |-> None, task |-> NoTask]
  IN  [sm |-> r.sm,
       result |-> [action |-> ToggledOrIdle(r.sm), toggle_changed |-> FALSE,
                   orchestration_event |-> r.ev, orchestration_task |-> r.task]]

\* a toggle step that never toggles off: it sets the resolved pair even when
\* that pair is the current toggle
ToggleNeverOff(s, bc) ==
  LET action == _resolve_class_to_action(s, bc)
  IN  IF action = "IDLE"
        THEN [sm |-> s, result |-> [Result0 EXCEPT !.action = ToggledOrIdle(s)]]
      ELSE [sm |-> [s EXCEPT !.toggled_action = action, !.toggled_class = bc],
            result |-> [Result0 EXCEPT !.action = action, !.toggle_changed = TRUE]]

\* the toggle step of handle_gesture (state_machine.py lines 143-161)
ToggleQuickClench(s, bc) ==
  LET action == _resolve_class_to_action(s, bc)
  IN  IF action = "IDLE"
        THEN [sm |-> s, result |-> [Result0 EXCEPT !.action = ToggledOrIdle(s)]]
      ELSE IF s.toggled_action = action /\ s.toggled_class = bc
        THEN [sm |-> [s EXCEPT !.toggled_action = None, !.toggled_class = None],
              result |-> [Result0 EXCEPT !.action = "IDLE", !.toggle_changed = TRUE]]
      ELSE [sm |-> [s EXCEPT !.toggled_action = action, !.toggled_class = bc],
            result |-> [Result0 EXCEPT !.action = action, !.toggle_changed = TRUE]]

\* a handler that toggles on a quick clench before it looks at the gear
HandleGestureToggleFirst(s, gesture) ==
  LET gt == gesture.gesture_type
      bc == gesture.brain_class
  IN  IF gt = "SELECT_SEQUENCE"
        THEN [sm |-> s, result |-> [Result0 EXCEPT !.action = ToggledOrIdle(s)]]
      ELSE IF bc = "Tongue Tapping" /\ gt = "QUICK_CLENCH"
        THEN LET s1 == shift_gear(s)
             IN  [sm |-> s1, result |-> [Result0 EXCEPT !.action = ToggledOrIdle(s1)]]
      ELSE IF gt = "QUICK_CLENCH"
        THEN ToggleQuickClench(s, bc)
      ELSE IF s.gear = "ORCHESTRATE"
        THEN _handle_orchestrate_gesture(s, gesture)
      ELSE [sm |-> s, result |-> [Result0 EXCEPT !.action = ToggledOrIdle(s)]]

handle_gesture(s, gesture) ==
  LET gt == gesture.gesture_type
      bc == gesture.brain_class
  IN  IF gt = "SELECT_SEQUENCE"
        THEN [sm |-> s, result |-> [Result0 EXCEPT !.action = ToggledOrIdle(s)]]
      ELSE IF bc = "Tongue Tapping" /\ gt = "QUICK_CLENCH"
        THEN LET s1 == shift_gear(s)
             IN  [sm |-> s1, result |-> [Result0 EXCEPT !.action = ToggledOrIdle(s1)]]
      ELSE IF s.gear = "ORCHESTRATE"
        THEN _handle_orchestrate_gesture(s, gesture)
      ELSE IF gt = "QUICK_CLENCH"
        THEN ToggleQuickClench(s, bc)
      ELSE [sm |-> s, result |-> [Result0 EXCEPT !.action = ToggledOrIdle(s)]]

(***************************************************************************)
(* GestureRecognizer (backend/gesture.py).                                 *)
(***************************************************************************)
_ACTIVE_CLASSES ==
  {"Right Fist", "Left Fist", "Left First", "Both Fists", "Both Firsts",
   "Tongue Tapping"}

_normalize(brain_class) ==
  IF brain_class = "Left First" THEN "Left Fist"
  ELSE IF brain_class = "Both Firsts" THEN "Both Fists"
  ELSE brain_class

_is_active(brain_class) == brain_class # None /\ brain_class \in _ACTIVE_CLASSES

_is_both_fists(brain_class) == brain_class \in {"Both Fists", "Both Firsts"}

GestureRecognizer ==
  [state |-> "IDLE", hold_class |-> None, hold_start |-> 0,
   select_start |-> 0, select_direction |-> None,
   last_quick_class |-> None, last_quick_time |-> 0]

_handle_idle(g, brain_class, now) ==
  IF _is_active(brain_class)
    THEN [g |-> [g EXCEPT !.state = "HOLDING", !.hold_class = brain_class,
                          !.hold_start = now],
          event |-> NoGesture]
    ELSE [g |-> g, event |-> NoGesture]

\* a double clench that leaves the pending quick clench recorded
EmitDoubleKeepsPending(g, brain_class, duration, now) ==
  IF g.last_quick_class = brain_class
       /\ now - g.last_quick_time < DOUBLE_CLENCH_WINDOW_S
    THEN [g |-> [g EXCEPT !.last_quick_time = now],
          event |-> GestureEvent("DOUBLE_CLENCH", brain_class, duration, None)]
    ELSE [g |-> [g EXCEPT !.last_quick_class = brain_class,
                          !.last_quick_time = now],
          event |-> GestureEvent("QUICK_CLENCH", brain_class, duration, None)]

_emit_quick_or_double(g, brain_class, duration, now) ==
  IF g.last_quick_class = brain_class
       /\ now - g.last_quick_time < DOUBLE_CLENCH_WINDOW_S
    THEN [g |-> [g EXCEPT !.last_quick_class = None, !.last_quick_time = 0],
          event |-> GestureEvent("DOUBLE_CLENCH", brain_class, duration, None)]
    ELSE [g |-> [g EXCEPT !.last_quick_class = brain_class,
                          !.last_quick_time = now],
          event |-> GestureEvent("QUICK_CLENCH", brain_class, duration, None)]

\* a holding handler that, on a change of class, goes on timing the new hold
\* from the start of the old one
HoldingKeepsStart(g, brain_class, now) ==
  LET duration == now - g.hold_start
      held_class == g.hold_class
      event == IF duration < QUICK_CLENCH_MAX_S
                 THEN _emit_quick_or_double(g, held_class, duration, now).event
               ELSE IF duration < LONG_HOLD_THRESHOLD_S
                 THEN GestureEvent("HOLD_MEDIUM", held_class, duration, None)
               ELSE GestureEvent("HOLD_LONG", held_class, duration, None)
  IN  IF brain_class = g.hold_class THEN [g |-> g, event |-> NoGesture]
      ELSE IF ~_is_active(brain_class)
        THEN [g |-> [g EXCEPT !.state = "IDLE", !.hold_class = None],
              event |-> event]
      ELSE [g |-> [g EXCEPT !.hold_class = brain_class], event |-> event]

\* a holding handler that takes every release for the end of a quick clench
HoldingReleaseAlwaysQuick(g, brain_class, now) ==
  IF brain_class = g.hold_class THEN [g |-> g, event |-> NoGesture]
  ELSE IF ~_is_active(brain_class)
    THEN _emit_quick_or_double([g EXCEPT !.state = "IDLE", !.hold_class = None],
                               g.hold_class, now - g.hold_start, now)
  ELSE [g |-> [g EXCEPT !.hold_class = brain_class, !.hold_start = now],
        event |-> NoGesture]

_handle_holding(g, brain_class, now) ==
  LET duration == now - g.hold_start
      held_class == g.hold_class
  IN  IF brain_class = g.hold_class THEN [g |-> g, event |-> NoGesture]
      ELSE IF ~_is_active(brain_class) THEN
        LET g1 == [g EXCEPT !.state = "IDLE", !.hold_class = None]
        IN  IF duration < QUICK_CLENCH_MAX_S
              THEN _emit_quick_or_double(g1, held_class, duration, now)
            ELSE IF duration < LONG_HOLD_THRESHOLD_S
              THEN [g |-> g1,
                    event |-> GestureEvent("HOLD_MEDIUM", held_class, duration, None)]
            ELSE IF _is_both_fists(held_class)
              THEN [g |-> [g1 EXCEPT !.state = "AWAITING_SELECT",
                                     !.select_start = now,
                                     !.select_direction = None],
                    event |-> NoGesture]
            ELSE [g |-> g1,
                  event |-> GestureEvent("HOLD_LONG", held_class, duration, None)]
      ELSE
        LET g1 == [g EXCEPT !.hold_class = brain_class, !.hold_start = now]
        IN  IF duration < QUICK_CLENCH_MAX_S
              THEN _emit_quick_or_double(g1, held_class, duration, now)
            ELSE IF duration < LONG_HOLD_THRESHOLD_S
              THEN [g |-> g1,
                    event |-> GestureEvent("HOLD_MEDIUM", held_class, duration, None)]
            ELSE IF _is_both_fists(held_class)
                      /\ brain_class \in {"Left Fist", "Right Fist"}
              THEN [g |-> [g1 EXCEPT !.state = "AWAITING_RECLENCH",
                                     !.select_start = now,
                                     !.select_direction =
                                        IF brain_class = "Left Fist"
                                          THEN "left" ELSE "right"],
                    event |-> NoGesture]
            ELSE [g |-> g1,
                  event |-> GestureEvent("HOLD_LONG", held_class, duration, None)]

\* the timeout branch shared by the two AWAITING handlers
AwaitTimeout(g, brain_class, now) ==
  [g |-> IF _is_active(brain_class)
           THEN [g EXCEPT !.state = "HOLDING", !.hold_class = brain_class,
                          !.hold_start = now]
           ELSE [g EXCEPT !.state = "IDLE"],
   event |-> GestureEvent("HOLD_LONG", "Both Fists", LONG_HOLD_THRESHOLD_S, None)]

\* an AWAITING_SELECT handler that takes every fist for the right one
AwaitSelectAlwaysRight(g, brain_class, now) ==
  LET elapsed == now - g.select_start
  IN  IF elapsed > SELECT_WINDOW_S THEN AwaitTimeout(g, brain_class, now)
      ELSE IF brain_class \in {"Left Fist", "Left First", "Right Fist"}
        THEN [g |-> [g EXCEPT !.state = "AWAITING_RECLENCH",
                              !.select_start = now,
                              !.select_direction = "right"],
              event |-> NoGesture]
      ELSE [g |-> g, event |-> NoGesture]

_handle_awaiting_select(g, brain_class, now) ==
  LET elapsed == now - g.select_start
  IN  IF elapsed > SELECT_WINDOW_S THEN AwaitTimeout(g, brain_class, now)
      ELSE IF brain_class \in {"Left Fist", "Left First", "Right Fist"}
        THEN [g |-> [g EXCEPT !.state = "AWAITING_RECLENCH",
                              !.select_start = now,
                              !.select_direction =
                                 IF brain_class \in {"Left Fist", "Left First"}
                                   THEN "left" ELSE "right"],
              event |-> NoGesture]
      ELSE [g |-> g, event |-> NoGesture]

\* an AWAITING_RECLENCH handler whose window starts again with every label
\* that is not the re-clench
AwaitReclenchRenews(g, brain_class, now) ==
  LET elapsed == now - g.select_start
  IN  IF elapsed > RECLENCH_WINDOW_S THEN AwaitTimeout(g, brain_class, now)
      ELSE IF _is_both_fists(brain_class)
        THEN [g |-> [g EXCEPT !.state = "HOLDING", !.hold_class = brain_class,
                              !.hold_start = now, !.select_direction = None],
              event |-> GestureEvent("SELECT_SEQUENCE", "Both Fists",
                                     LONG_HOLD_THRESHOLD_S, g.select_direction)]
      ELSE [g |-> [g EXCEPT !.select_start = now], event |-> NoGesture]

\* an AWAITING_RECLENCH handler that takes the re-clench as the end of the
\* gesture and goes back to IDLE
ReclenchEndsIdle(g, brain_class, now) ==
  LET elapsed == now - g.select_start
  IN  IF elapsed > RECLENCH_WINDOW_S THEN AwaitTimeout(g, brain_class, now)
      ELSE IF _is_both_fists(brain_class)
        THEN [g |-> [g EXCEPT !.state = "IDLE", !.hold_class = None,
                              !.select_direction = None],
              event |-> GestureEvent("SELECT_SEQUENCE", "Both Fists",
                                     LONG_HOLD_THRESHOLD_S, g.select_direction)]
      ELSE [g |-> g, event |-> NoGesture]

_handle_awaiting_reclench(g, brain_class, now) ==
  LET elapsed == now - g.select_start
  IN  IF elapsed > RECLENCH_WINDOW_S THEN AwaitTimeout(g, brain_class, now)
      ELSE IF _is_both_fists(brain_class)
        THEN [g |-> [g EXCEPT !.state = "HOLDING", !.hold_class = brain_class,
                              !.hold_start = now, !.select_direction = None],
              event |-> GestureEvent("SELECT_SEQUENCE", "Both Fists",
                                     LONG_HOLD_THRESHOLD_S, g.select_direction)]
      ELSE [g |-> g, event |-> NoGesture]

\* GestureRecognizer.update
gesture_update(g, brain_class_in, now) ==
  LET brain_class == _normalize(brain_class_in)
  IN  IF g.state = "IDLE" THEN _handle_idle(g, brain_class, now)
      ELSE IF g.state = "HOLDING" THEN _handle_holding(g, brain_class, now)
      ELSE IF g.state = "AWAITING_SELECT"
        THEN _handle_awaiting_select(g, brain_class, now)
      ELSE _handle_awaiting_reclench(g, brain_class, now)

\* GestureRecognizer.reset
gesture_reset(g) == GestureRecognizer

(***************************************************************************)
(* CommandFusion (backend/command_fusion.py).  fusion.sm is the machine    *)
(* passed as s: the loop points it at the selected robot before each call. *)
(***************************************************************************)
CommandFusion ==
  [gesture |-> GestureRecognizer, last_emitted_action |-> "IDLE",
   voice_override_until |-> 0]

NoVoice == [command_type |-> None, action |-> None, target |-> None]

NoBrain == [label |-> None, gated |-> TRUE]

VoiceActionMap ==
  {"STOP", "EMERGENCY_STOP", "MOVE_FORWARD", "MOVE_BACKWARD", "ROTATE_LEFT",
   "ROTATE_RIGHT", "GRAB", "RELEASE"}

\* returns the machine after a gear side effect and the action (None: not mapped)
_handle_voice_command(s, cmd) ==
  IF cmd.command_type = "direct_override" THEN
    IF cmd.action = "SHIFT_GEAR" THEN [sm |-> shift_gear(s), action |-> "IDLE"]
    ELSE IF cmd.action = "SET_GEAR_FORWARD"
      THEN [sm |-> set_gear(s, "FORWARD"), action |-> "IDLE"]
    ELSE IF cmd.action = "SET_GEAR_REVERSE"
      THEN [sm |-> set_gear(s, "REVERSE"), action |-> "IDLE"]
    ELSE IF cmd.action = "SET_GEAR_NEUTRAL"
      THEN [sm |-> set_gear(s, "NEUTRAL"), action |-> "IDLE"]
    ELSE IF cmd.action = "SET_GEAR_ORCHESTRATE"
      THEN [sm |-> set_gear(s, "ORCHESTRATE"), action |-> "IDLE"]
    ELSE IF cmd.action = "CANCEL_NAV" THEN [sm |-> s, action |-> "STOP"]
    ELSE IF cmd.action \in VoiceActionMap THEN [sm |-> s, action |-> cmd.action]
    ELSE [sm |-> s, action |-> None]
  ELSE [sm |-> s, action |-> None]

Fused0 ==
  [action |-> "IDLE", source |-> "idle", gesture_type |-> None,
   brain_class |-> None, select_direction |-> None, toggle_changed |-> FALSE,
   orchestration_event |-> None, orchestration_task |-> NoTask,
   gesture_fed |-> FALSE]

\* a hold window that forgets the held action
VoiceHoldForgets(f, now) ==
  IF now < f.voice_override_until
    THEN [Fused0 EXCEPT !.source = "voice_hold"]
    ELSE Fused0

\* Priority 2 of update: the voice-hold window (command_fusion.py lines 49-55)
VoiceHold(f, now) ==
  IF now < f.voice_override_until
    THEN [Fused0 EXCEPT !.action = f.last_emitted_action, !.source = "voice_hold"]
    ELSE Fused0

\* an update that feeds the recognizer and handles a gesture but never
\* sustains the toggle
BrainUpdateNoSustain(f, s, brain_result, now) ==
  LET brain_label == IF brain_result # NoBrain /\ ~brain_result.gated
                       THEN brain_result.label ELSE None
      gu == gesture_update(f.gesture, brain_label, now)
  IN  IF gu.event # NoGesture THEN
        LET h == handle_gesture(s, gu.event)
        IN  [fusion |-> [f EXCEPT !.gesture = gu.g,
                                  !.last_emitted_action = h.result.action],
             sm |-> h.sm,
             fused |-> [Fused0 EXCEPT !.action = h.result.action,
                                      !.source = "brain_gesture",
                                      !.gesture_fed = TRUE]]
      ELSE
        [fusion |-> [f EXCEPT !.gesture = gu.g, !.last_emitted_action = "IDLE"],
         sm |-> s,
         fused |-> [Fused0 EXCEPT !.gesture_fed = TRUE]]

\* Priorities 2b-3 of update: gesture, toggle sustain, idle (lines 57-110)
BrainUpdate(f, s, brain_result, now) ==
  LET brain_label == IF brain_result # NoBrain /\ ~brain_result.gated
                       THEN brain_result.label ELSE None
      gu == gesture_update(f.gesture, brain_label, now)
  IN  IF gu.event # NoGesture THEN
        LET h == handle_gesture(s, gu.event)
        IN  [fusion |-> [f EXCEPT !.gesture = gu.g,
                                  !.last_emitted_action = h.result.action],
             sm |-> h.sm,
             fused |-> [action |-> h.result.action, source |-> "brain_gesture",
                        gesture_type |-> gu.event.gesture_type,
                        brain_class |-> gu.event.brain_class,
                        select_direction |-> gu.event.select_direction,
                        toggle_changed |-> h.result.toggle_changed,
                        orchestration_event |-> h.result.orchestration_event,
                        orchestration_task |-> h.result.orchestration_task,
                        gesture_fed |-> TRUE]]
      ELSE IF s.toggled_action # None THEN
        [fusion |-> [f EXCEPT !.gesture = gu.g,
                              !.last_emitted_action = s.toggled_action],
         sm |-> s,
         fused |-> [Fused0 EXCEPT !.action = s.toggled_action,
                                  !.source = "brain_toggle",
                                  !.gesture_fed = TRUE]]
      ELSE
        [fusion |-> [f EXCEPT !.gesture = gu.g, !.last_emitted_action = "IDLE"],
         sm |-> s,
         fused |-> [Fused0 EXCEPT !.gesture_fed = TRUE]]

\* CommandFusion.update
fusion_update(f, s, brain_result, voice_command, now) ==
  LET v == IF voice_command # NoVoice
             THEN _handle_voice_command(s, voice_command)
             ELSE [sm |-> s, action |-> None]
  IN  IF v.action # None
        THEN [fusion |-> [f EXCEPT !.voice_override_until =
                                      now + VOICE_OVERRIDE_HOLD_S,
                                   !.last_emitted_action = v.action],
              sm |-> v.sm,
              fused |-> [Fused0 EXCEPT !.action = v.action, !.source = "voice"]]
      ELSE IF VoiceHold(f, now).source = "voice_hold"
        THEN [fusion |-> f, sm |-> v.sm, fused |-> VoiceHold(f, now)]
      ELSE BrainUpdate(f, v.sm, brain_result, now)

\* CommandFusion.reset
fusion_reset(f) ==
  [f EXCEPT !.gesture = gesture_reset(f.gesture), !.last_emitted_action = "IDLE",
            !.voice_override_until = 0]

(***************************************************************************)
(* Autopilot (backend/autopilot.py).  Points are <<x, y>> in units of      *)
(* 0.25 m (the planner's cell size), so every landmark is an integer point *)
(* and distances compare as squares.  The robot's yaw enters update only   *)
(* through the normalised angle to the waypoint being steered to; it is    *)
(* passed as `heading`, the side of the alignment band that angle is in.   *)
(***************************************************************************)
WAYPOINT_ARRIVAL_DIST == 2

FACTORY_WAYPOINTS ==
  [n \in {"Shelf A", "Shelf B", "Conveyor", "Table", "Pallet 1", "Pallet 2"} |->
     CASE n = "Shelf A" -> <<-14, -8>>
       [] n = "Shelf B" -> <<14, -8>>
       [] n = "Conveyor" -> <<0, -14>>
       [] n = "Table" -> <<8, 6>>
       [] n = "Pallet 1" -> <<-6, 4>>
       [] n = "Pallet 2" -> <<6, 4>>]

Headings == {"left", "right", "aligned"}

NoAutopilot ==
  [target_name |-> None, target_xy |-> <<0, 0>>, waypoints |-> <<>>,
   wp_index |-> 0, active |-> FALSE, arrived |-> FALSE]

\* an autopilot built on the planner's path as it is, without the fallback
AutopilotNoFallback(target_name, target_xy, path) ==
  [target_name |-> target_name, target_xy |-> target_xy, waypoints |-> path,
   wp_index |-> 0, active |-> TRUE, arrived |-> FALSE]

\* Autopilot.__init__ ; path is what planner.find_path(start_xy, target_xy) returned
Autopilot(target_name, target_xy, path) ==
  [target_name |-> target_name, target_xy |-> target_xy,
   waypoints |-> IF path = <<>> THEN <<target_xy>> ELSE path,
   wp_index |-> 0, active |-> TRUE, arrived |-> FALSE]

Dist2(p, q) == (p[1] - q[1]) * (p[1] - q[1]) + (p[2] - q[2]) * (p[2] - q[2])

Within(p, q) == Dist2(p, q) < WAYPOINT_ARRIVAL_DIST * WAYPOINT_ARRIVAL_DIST

Steer(heading) ==
  IF heading = "left" THEN "ROTATE_LEFT"
  ELSE IF heading = "right" THEN "ROTATE_RIGHT"
  ELSE "MOVE_FORWARD"

\* an arrival that forgets to deactivate the autopilot
ArriveStaysActive(ap) == [ap |-> [ap EXCEPT !.arrived = TRUE], action |-> "STOP"]

\* the arrival branch of update (autopilot.py lines 105-108 and 123-126)
Arrive(ap) == [ap |-> [ap EXCEPT !.active = FALSE, !.arrived = TRUE], action |-> "STOP"]

\* Autopilot.update
autopilot_update(ap, robot_xy, heading) ==
  IF ~ap.active THEN [ap |-> ap, action |-> "IDLE"]
  ELSE IF ap.wp_index >= Len(ap.waypoints) THEN Arrive(ap)
  ELSE IF Within(robot_xy, ap.waypoints[ap.wp_index + 1]) THEN
         LET ap1 == [ap EXCEPT !.wp_index = @ + 1]
         IN  IF ap1.wp_index >= Len(ap1.waypoints) THEN Arrive(ap1)
             ELSE [ap |-> ap1, action |-> Steer(heading)]
  ELSE [ap |-> ap, action |-> Steer(heading)]

\* Autopilot.cancel
autopilot_cancel(ap) == [ap EXCEPT !.active = FALSE]

\* name.lower().strip() of the names given to resolve_target here; every
\* other one is in lower case without blanks around it already
LowerStrip(name) ==
  CASE name = "Shelf A" -> "shelf a"
    [] name = "Shelf B" -> "shelf b"
    [] name = "Conveyor" -> "conveyor"
    [] name = "Table" -> "table"
    [] name = "Pallet 1" -> "pallet 1"
    [] name = "Pallet 2" -> "pallet 2"
    [] name = "Charging Station" -> "charging station"
    [] name = "zone_A1" -> "zone_a1"
    [] OTHER -> name

\* _LANDMARK_ALIASES.get(name_lower): the canonical name, None for no entry
_LANDMARK_ALIASES(name_lower) ==
  CASE name_lower \in
           {"shelf a", "shelf 1", "shelve a"} -> "Shelf A"
    [] name_lower \in
           {"shelf b", "shelf 2", "shelve b", "shelf to", "shelve to"} -> "Shelf B"
    [] name_lower \in
           {"conveyor", "conveyor belt", "the conveyor", "belt"} -> "Conveyor"
    [] name_lower \in
           {"table", "the table", "work table"} -> "Table"
    [] name_lower \in
           {"pallet 1", "pallet one", "source pallet", "first pallet",
            "palette 1", "palette one"} -> "Pallet 1"
    [] name_lower \in
           {"pallet 2", "pallet two", "destination pallet",
            "second pallet", "palette 2", "palette two", "pallet",
            "palette", "the pallet", "the palette", "pallet to",
            "palette to"} -> "Pallet 2"
    [] name_lower \in
           {"charging station", "charging", "charger", "charge"} -> "Charging Station"
    [] name_lower \in
           {"tool cabinet", "tools", "cabinet", "tool box"} -> "Tool Cabinet"
    [] name_lower \in
           {"storage area", "storage", "storage rack"} -> "Storage Area"
    [] name_lower \in
           {"inspection zone", "inspection", "inspect", "qc"} -> "Inspection Zone"
    [] OTHER -> None

\* the characters of the strings the substring test is applied to
Letters(str) ==
  CASE str = "shelf a" -> <<"s", "h", "e", "l", "f", " ", "a">>
    [] str = "shelf b" -> <<"s", "h", "e", "l", "f", " ", "b">>
    [] str = "conveyor" -> <<"c", "o", "n", "v", "e", "y", "o", "r">>
    [] str = "table" -> <<"t", "a", "b", "l", "e">>
    [] str = "pallet 1" -> <<"p", "a", "l", "l", "e", "t", " ", "1">>
    [] str = "pallet 2" -> <<"p", "a", "l", "l", "e", "t", " ", "2">>
    [] str = "zone_a1" -> <<"z", "o", "n", "e", "_", "a", "1">>
    [] str = "tab" -> <<"t", "a", "b">>

\* Python's `a in b` on strings
IsSubstring(a, b) ==
  \E i \in 0..(Len(b) - Len(a)) : SubSeq(b, i + 1, i + Len(a)) = a

\* the first waypoint, in the order of FACTORY_WAYPOINTS, whose lower-case
\* name contains name_lower or is contained in it; 0 for none
FirstSubstringMatch(name_lower) ==
  LET hits == {i \in 1..Len(FACTORY_WAYPOINT_ORDER) :
                 LET wp == Letters(LowerStrip(FACTORY_WAYPOINT_ORDER[i]))
                 IN  \/ IsSubstring(wp, Letters(name_lower))
                     \/ IsSubstring(Letters(name_lower), wp)}
  IN  IF hits = {} THEN 0 ELSE CHOOSE i \in hits : \A j \in hits : i <= j

\* Autopilot.resolve_target: name is the canonical name found (None for the
\* result None), raised tells that the lookup FACTORY_WAYPOINTS[canonical]
\* ended in a KeyError
resolve_target(name) ==
  LET name_lower == LowerStrip(name)
      canonical == _LANDMARK_ALIASES(name_lower)
  IN  IF canonical # None
        THEN IF canonical \in DOMAIN FACTORY_WAYPOINTS
               THEN [name |-> canonical, xy |-> FACTORY_WAYPOINTS[canonical],
                     raised |-> FALSE]
               ELSE [name |-> None, xy |-> <<0, 0>>, raised |-> TRUE]
      ELSE LET i == FirstSubstringMatch(name_lower)
           IN  IF i # 0
                 THEN [name |-> FACTORY_WAYPOINT_ORDER[i],
                       xy |-> FACTORY_WAYPOINTS[FACTORY_WAYPOINT_ORDER[i]],
                       raised |-> FALSE]
                 ELSE [name |-> None, xy |-> <<0, 0>>, raised |-> FALSE]

(***************************************************************************)
(* PathPlanner (backend/pathfinding.py).  World coordinates are integers   *)
(* in units of half a grid cell, so a cell is `resolution` = 2 units wide  *)
(* and its centre is a point of the lattice; the map begins at 0.  A cell  *)
(* is <<row, col>>.  A planner is the record of rows, cols and grid, the   *)
(* set of occupied cells.                                                  *)
(*                                                                         *)
(* A path cost is a Python float, an IEEE double.  Every cost the planner  *)
(* computes is a multiple of 2^-52 below 32, written here as the pair      *)
(* <<hi, lo>> for (hi * 2^26 + lo) * 2^-52 with 0 <= lo < 2^26; a sum or a *)
(* product is computed exactly and then rounded to 53 significant bits,    *)
(* ties to even, as the hardware does.                                     *)
(***************************************************************************)
resolution == 2

robot_radius == 1

max_radius == 20

MAP_MIN_X == 0

MAP_MIN_Y == 0

NoCell == <<-1, -1>>

_DIRECTIONS ==
  <<<<1, 0>>, <<-1, 0>>, <<0, 1>>, <<0, -1>>,
    <<1, 1>>, <<1, -1>>, <<-1, 1>>, <<-1, -1>>>>

FloatBase == 67108864

\* math.sqrt(2.0) = 6369051672525773 * 2^-52
_SQRT2 == <<94906265, 41892813>>

FloatOfInt(k) == <<k * FloatBase, 0>>

FloatCarry(x) == <<x[1] + x[2] \div FloatBase, x[2] % FloatBase>>

\* the spacing of the doubles around x, in units of 2^-52
FloatUlp(x) ==
  IF x[1] < 2 * FloatBase THEN 1
  ELSE IF x[1] < 4 * FloatBase THEN 2
  ELSE IF x[1] < 8 * FloatBase THEN 4
  ELSE IF x[1] < 16 * FloatBase THEN 8
  ELSE 16

\* round to nearest, ties to even
FloatRound(x) ==
  LET m == FloatUlp(x)
      r == x[2] % m
      down == x[2] - r
      up == IF 2 * r > m THEN TRUE
            ELSE IF 2 * r < m THEN FALSE
            ELSE (down \div m) % 2 = 1
  IN  FloatCarry(<<x[1], IF up THEN down + m ELSE down>>)

FloatAdd(x, y) == FloatRound(FloatCarry(<<x[1] + y[1], x[2] + y[2]>>))

FloatSub(x, y) ==
  FloatRound(FloatCarry(<<x[1] - y[1] - 1, x[2] - y[2] + FloatBase>>))

FloatTimes(x, k) == FloatRound(FloatCarry(<<x[1] * k, x[2] * k>>))

FloatLess(x, y) == x[1] < y[1] \/ (x[1] = y[1] /\ x[2] < y[2])

Max(a, b) == IF a >= b THEN a ELSE b

Min(a, b) == IF a <= b THEN a ELSE b

Abs(a) == IF a >= 0 THEN a ELSE -a

Clamp(lo, hi, v) == Max(lo, Min(hi, v))

\* the cells one obstacle <<cx, cy, hx, hy>> blocks after inflation
ObstacleCells(rows, cols, ob) ==
  LET inflated_hx == ob[3] + robot_radius
      inflated_hy == ob[4] + robot_radius
      col_lo == Max(0, (ob[1] - inflated_hx - MAP_MIN_X) \div resolution)
      col_hi == Min(cols - 1, (ob[1] + inflated_hx - MAP_MIN_X) \div resolution)
      row_lo == Max(0, (ob[2] - inflated_hy - MAP_MIN_Y) \div resolution)
      row_hi == Min(rows - 1, (ob[2] + inflated_hy - MAP_MIN_Y) \div resolution)
  IN  {<<r, c>> : r \in row_lo..row_hi, c \in col_lo..col_hi}

_build_grid(rows, cols, obstacles) ==
  UNION {ObstacleCells(rows, cols, obstacles[i]) : i \in 1..Len(obstacles)}

PathPlanner(rows, cols, obstacles) ==
  [rows |-> rows, cols |-> cols, grid |-> _build_grid(rows, cols, obstacles)]

_world_to_grid(P, x, y) ==
  <<Clamp(0, P.rows - 1, (y - MAP_MIN_Y) \div resolution),
    Clamp(0, P.cols - 1, (x - MAP_MIN_X) \div resolution)>>

\* the cell centre: min + (index + 0.5) * resolution
_grid_to_world(P, cell) ==
  <<MAP_MIN_X + ((2 * cell[2] + 1) * resolution) \div 2,
    MAP_MIN_Y + ((2 * cell[1] + 1) * resolution) \div 2>>

_in_bounds(P, row, col) == 0 <= row /\ row < P.rows /\ 0 <= col /\ col < P.cols

is_occupied(P, xy) == _world_to_grid(P, xy[1], xy[2]) \in P.grid

\* octile distance: max(dr, dc) + (_SQRT2 - 1.0) * min(dr, dc)
_heuristic(r1, c1, r2, c2) ==
  LET dr == Abs(r1 - r2)
      dc == Abs(c1 - c2)
  IN  FloatAdd(FloatOfInt(Max(dr, dc)),
               FloatTimes(FloatSub(_SQRT2, FloatOfInt(1)), Min(dr, dc)))

RECURSIVE NearestLoop(_, _, _)
\* the BFS loop of _nearest_free; queue holds <<row, col, dist>>
NearestLoop(P, queue, visited) ==
  IF queue = <<>> THEN NoCell
  ELSE LET r == queue[1][1]
           c == queue[1][2]
           dist == queue[1][3]
           nbrs == [i \in 1..Len(_DIRECTIONS) |->
                      <<r + _DIRECTIONS[i][1], c + _DIRECTIONS[i][2], dist + 1>>]
           Fresh(n) == _in_bounds(P, n[1], n[2]) /\ <<n[1], n[2]>> \notin visited
           new == SelectSeq(nbrs, Fresh)
       IN  IF dist > max_radius THEN NoCell
           ELSE IF <<r, c>> \notin P.grid THEN <<r, c>>
           ELSE NearestLoop(P, Tail(queue) \o new,
                            visited \cup {<<new[i][1], new[i][2]>> : i \in 1..Len(new)})

_nearest_free(P, row, col) == NearestLoop(P, <<<<row, col, 0>>>>, {<<row, col>>})

RECURSIVE ReconstructPath(_, _)
\* the path from the start to node along came_from
ReconstructPath(came_from, node) ==
  IF node = NoCell THEN <<>>
  ELSE Append(ReconstructPath(came_from, came_from[node]), node)

RECURSIVE ExpandNeighbours(_, _, _, _, _, _)
\* the loop over _DIRECTIONS of one A* expansion, from direction i on
ExpandNeighbours(P, st, cur, current_g, goal, i) ==
  IF i > Len(_DIRECTIONS) THEN st
  ELSE LET dr == _DIRECTIONS[i][1]
           dc == _DIRECTIONS[i][2]
           n == <<cur[1] + dr, cur[2] + dc>>
           skip == \/ ~_in_bounds(P, n[1], n[2])
                   \/ n \in P.grid
                   \/ /\ dr # 0 /\ dc # 0
                      /\ <<cur[1] + dr, cur[2]>> \in P.grid
                      /\ <<cur[1], cur[2] + dc>> \in P.grid
           move_cost == IF dr # 0 /\ dc # 0 THEN _SQRT2 ELSE FloatOfInt(1)
           new_g == FloatAdd(current_g, move_cost)
           f_cost == FloatAdd(new_g, _heuristic(n[1], n[2], goal[1], goal[2]))
           st1 == IF ~skip /\ (n \notin st.known \/ FloatLess(new_g, st.g_cost[n]))
                    THEN [st EXCEPT !.known = @ \cup {n},
                                    !.g_cost[n] = new_g,
                                    !.came_from[n] = cur,
                                    !.counter = @ + 1,
                                    !.open_set = @ \cup
                                      {[f |-> f_cost, counter |-> st.counter + 1,
                                        cell |-> n]}]
                    ELSE st
       IN  ExpandNeighbours(P, st1, cur, current_g, goal, i + 1)

\* the order of the heap's tuples (f_cost, counter, row, col)
HeapLeq(x, y) ==
  FloatLess(x.f, y.f) \/ (x.f = y.f /\ x.counter <= y.counter)

RECURSIVE AStarLoop(_, _, _)
\* the `while open_set` loop of _astar; <<>> stands for None
AStarLoop(P, st, goal) ==
  IF st.open_set = {} THEN <<>>
  ELSE LET e == CHOOSE x \in st.open_set : \A y \in st.open_set : HeapLeq(x, y)
           st1 == [st EXCEPT !.open_set = @ \ {e}]
           current_g == st.g_cost[e.cell]
       IN  IF e.cell = goal THEN ReconstructPath(st.came_from, goal)
           ELSE IF FloatLess(st.g_cost[e.cell], current_g) THEN AStarLoop(P, st1, goal)
           ELSE AStarLoop(P, ExpandNeighbours(P, st1, e.cell, current_g, goal, 1), goal)

\* known is the set of keys of g_cost and of came_from
_astar(P, start, goal) ==
  LET s == IF start \in P.grid THEN _nearest_free(P, start[1], start[2]) ELSE start
      g == IF goal \in P.grid THEN _nearest_free(P, goal[1], goal[2]) ELSE goal
      Cells == (0..(P.rows - 1)) \X (0..(P.cols - 1))
      st == [open_set |-> {[f |-> FloatOfInt(0), counter |-> 0, cell |-> s]},
             known |-> {s},
             g_cost |-> [x \in Cells |-> FloatOfInt(0)],
             came_from |-> [x \in Cells |-> NoCell],
             counter |-> 0]
  IN  IF s = NoCell \/ g = NoCell THEN <<>> ELSE AStarLoop(P, st, g)

RECURSIVE LineLoop(_, _, _, _, _, _, _, _, _)
\* the cells the loop of _line_of_sight visits from <<r, c>> on, in order
LineLoop(r, c, err, r2, c2, dr, dc, sr, sc) ==
  IF r = r2 /\ c = c2 THEN <<<<r, c>>>>
  ELSE LET e2 == 2 * err
           err1 == IF e2 > -dc THEN err - dc ELSE err
           r1 == IF e2 > -dc THEN r + sr ELSE r
           err2 == IF e2 < dr THEN err1 + dr ELSE err1
           c1 == IF e2 < dr THEN c + sc ELSE c
       IN  <<<<r, c>>>> \o LineLoop(r1, c1, err2, r2, c2, dr, dc, sr, sc)

LineCells(r1, c1, r2, c2) ==
  LET dr == Abs(r2 - r1)
      dc == Abs(c2 - c1)
      sr == IF r2 > r1 THEN 1 ELSE -1
      sc == IF c2 > c1 THEN 1 ELSE -1
  IN  LineLoop(r1, c1, dr - dc, r2, c2, dr, dc, sr, sc)

\* true when no cell the loop visits is occupied
_line_of_sight(P, r1, c1, r2, c2) ==
  LET cells == LineCells(r1, c1, r2, c2)
  IN  \A i \in 1..Len(cells) : cells[i] \notin P.grid

\* a smoothing that reaches the goal, steps back one cell and returns
SmoothStepsBack(P, grid_path) ==
  IF Len(grid_path) <= 2 THEN grid_path
  ELSE <<grid_path[1], grid_path[Len(grid_path)],
         grid_path[Len(grid_path) - 1], grid_path[Len(grid_path)]>>

\* a smoothing that keeps the two ends and looks at nothing between them
SmoothWithoutSight(P, grid_path) ==
  IF Len(grid_path) <= 2 THEN grid_path
  ELSE <<grid_path[1], grid_path[Len(grid_path)]>>

RECURSIVE SmoothLoop(_, _, _, _)
\* the while loop of _smooth_path; current_idx counts from 1
SmoothLoop(P, grid_path, smoothed, current_idx) ==
  IF current_idx >= Len(grid_path) THEN smoothed
  ELSE LET seen == {k \in (current_idx + 2)..Len(grid_path) :
                      _line_of_sight(P, grid_path[current_idx][1],
                                     grid_path[current_idx][2],
                                     grid_path[k][1], grid_path[k][2])}
           best_idx == IF seen = {} THEN current_idx + 1
                       ELSE CHOOSE k \in seen : \A j \in seen : j <= k
       IN  SmoothLoop(P, grid_path, Append(smoothed, grid_path[best_idx]), best_idx)

_smooth_path(P, grid_path) ==
  IF Len(grid_path) <= 2 THEN grid_path
  ELSE SmoothLoop(P, grid_path, <<grid_path[1]>>, 1)

find_path(P, start_xy, goal_xy) ==
  LET start_rc == _world_to_grid(P, start_xy[1], start_xy[2])
      goal_rc == _world_to_grid(P, goal_xy[1], goal_xy[2])
      grid_path == _astar(P, start_rc, goal_rc)
      smoothed_grid == _smooth_path(P, grid_path)
      world_path == [i \in 1..Len(smoothed_grid) |->
                       _grid_to_world(P, smoothed_grid[i])]
      w1 == IF ~is_occupied(P, start_xy)
              THEN [world_path EXCEPT ![1] = start_xy] ELSE world_path
      w2 == IF ~is_occupied(P, goal_xy)
              THEN [w1 EXCEPT ![Len(w1)] = goal_xy] ELSE w1
  IN  IF start_rc = goal_rc THEN <<goal_xy>>
      ELSE IF grid_path = <<>> THEN <<>>
      ELSE w2

(***************************************************************************)
(* ControlLoop (backend/control_loop.py).  The methods are operators on a  *)
(* record L of the loop's fields:                                          *)
(*   now       the clock            sel      robot_manager.selected_index  *)
(*   sm        robot -> machine     fusion   the CommandFusion             *)
(*   vq        _voice_queue         aq       _action_queue                 *)
(*   waiting   _waiting_for_arrival aps      _autopilots (NoAutopilot:     *)
(*   seqt      _sequential_tasks             no entry for the robot)       *)
(*   ccp, cct  _cancel_confirm_pending, _cancel_confirm_time               *)
(*   holding   the simulator's holding flag per robot                      *)
(*   active    robot_manager.active_robot_ids                              *)
(*   benabled, venabled   brain_enabled, voice_enabled                     *)
(*   pos       the robots' positions kept by robot_manager                 *)
(*   lat       the length of the latency history                           *)
(*   msgs      the broadcasts of the running operation, in order           *)
(*   execs     its sim.execute calls <<robot, action>>, in order           *)
(* env is what the operation reads from the simulator and the planner:     *)
(* env.pos the robot position get_state returns, env.heading the side of   *)
(* the alignment band the yaw is in, env.plan the shape of find_path's     *)
(* result.                                                                 *)
(***************************************************************************)
SelId(L) == RobotIds[L.sel + 1]

\* sim.execute: GRAB and RELEASE set the simulator's holding flag
Exec(L, action, rid) ==
  [L EXCEPT !.holding[rid] = IF action = "GRAB" THEN TRUE
                             ELSE IF action = "RELEASE" THEN FALSE ELSE @,
            !.execs = Append(@, <<rid, action>>)]

\* self.broadcast
EmitA(L, m, arg) == [L EXCEPT !.msgs = Append(@, <<m, arg>>)]

Emit(L, m) == EmitA(L, m, None)

ClearToggle(s) == [s EXCEPT !.toggled_action = None, !.toggled_class = None]

HasActiveNav(L) == \E r \in Robots : L.aps[r].active

\* find_path's result as the loop sees it: just the goal (start and goal in
\* the same cell, or no path and the constructor's fallback), or the start
\* followed by the goal
PlanShapes == {"goal", "start_goal"}

LoopPath(env, target_xy) ==
  IF env.plan = "goal" THEN <<target_xy>> ELSE <<env.pos, target_xy>>

\* ControlLoop.start_nav.  ok and error are the fields of the dict returned;
\* raised tells that the call ended in resolve_target's KeyError instead of
\* returning, the loop being as it was.  The callers in the loop are
\* written for targets that do not raise.
start_nav(L, target_name, robot_id, env) ==
  LET result == resolve_target(target_name)
  IN  IF result.raised
        THEN [L |-> L, ok |-> FALSE, error |-> FALSE, raised |-> TRUE]
      ELSE IF result.name = None
        THEN [L |-> L, ok |-> FALSE, error |-> TRUE, raised |-> FALSE]
      ELSE [L |-> [L EXCEPT !.aps[robot_id] =
                               Autopilot(result.name, result.xy,
                                         LoopPath(env, result.xy)),
                            !.sm[robot_id] = set_gear(@, "FORWARD")],
            ok |-> TRUE, error |-> FALSE, raised |-> FALSE]

cancel_nav(L, robot_id) ==
  LET L1 == [L EXCEPT !.aps[robot_id] = NoAutopilot]
      L2 == Exec(L1, "IDLE", robot_id)
  IN  [L2 EXCEPT !.sm[robot_id] = ClearToggle(@)]

RECURSIVE StopRobotsKeepToggle(_, _, _)
\* stops the cancelled robots and leaves their toggles
StopRobotsKeepToggle(L, ids, i) ==
  IF i > Len(RobotIds) THEN L
  ELSE IF RobotIds[i] \in ids
    THEN StopRobotsKeepToggle(Exec(L, "IDLE", RobotIds[i]), ids, i + 1)
  ELSE StopRobotsKeepToggle(L, ids, i + 1)

RECURSIVE StopRobots(_, _, _)
\* the loop over cancelled_ids in _cancel_active_tasks, in robot order
StopRobots(L, ids, i) ==
  IF i > Len(RobotIds) THEN L
  ELSE IF RobotIds[i] \in ids
    THEN StopRobots([Exec(L, "IDLE", RobotIds[i])
                       EXCEPT !.sm[RobotIds[i]] = ClearToggle(@)], ids, i + 1)
  ELSE StopRobots(L, ids, i + 1)

_cancel_active_tasks(L) ==
  LET cancelled_ids == {r \in Robots : L.aps[r].active}
      L1 == [L EXCEPT !.aps = [r \in Robots |-> NoAutopilot], !.seqt = <<>>]
      L2 == StopRobots(L1, cancelled_ids, 1)
  IN  [L2 EXCEPT !.fusion = fusion_reset(@)]

RECURSIVE StartAll(_, _, _, _)
\* the simultaneous branch of _dispatch_orchestration_task
StartAll(L, ids, landmark, env) ==
  IF ids = <<>> THEN L
  ELSE StartAll(start_nav(L, landmark, Head(ids), env).L, Tail(ids), landmark, env)

\* the tasks the state machine of this revision can dispatch are MOVE_TO,
\* CARRY_TO and STACK_TO
_dispatch_orchestration_task(L, task, env) ==
  LET active_ids == L.active
      is_logistics == task.action \in {"CARRY_TO", "STACK_TO"}
  IN  IF is_logistics /\ Len(active_ids) > 1
        THEN LET L1 == start_nav(L, task.landmark, Head(active_ids), env).L
                 rest == Tail(active_ids)
             IN  Emit([L1 EXCEPT !.seqt = @ \o
                          [i \in 1..Len(rest) |->
                             [robot_id |-> rest[i], landmark |-> task.landmark]]],
                      "ORCH")
        ELSE Emit(StartAll(L, active_ids, task.landmark, env), "ORCH")

RECURSIVE _advance_action_queue(_, _)
_advance_action_queue(L, env) ==
  IF L.aq = <<>> THEN [L EXCEPT !.waiting = FALSE]
  ELSE LET step == Head(L.aq)
       IN  IF step.action = "NAVIGATE" /\ step.target # None THEN
             LET result == start_nav(L, step.target, SelId(L), env)
             IN  IF result.ok
                   THEN EmitA([result.L EXCEPT !.waiting = TRUE], "SEQ_NAV", step.target)
                   ELSE _advance_action_queue([L EXCEPT !.aq = Tail(@)], env)
           ELSE IF step.action \in {"GRAB", "RELEASE", "STOP"} THEN
             LET L1 == EmitA(Exec(L, step.action, SelId(L)), "SEQ_ACT", step.action)
                 L2 == [L1 EXCEPT !.aq = Tail(@)]
             IN  IF L2.aq # <<>> THEN [L2 EXCEPT !.waiting = FALSE] ELSE L2
           ELSE _advance_action_queue([L EXCEPT !.aq = Tail(@)], env)

\* robot_manager.select_by_direction
select_by_direction(L, direction) ==
  [L EXCEPT !.sel = IF direction = "right"
                      THEN (@ + 1) % Len(RobotIds)
                      ELSE (@ - 1) % Len(RobotIds)]

StopWords == {"CANCEL_NAV", "STOP", "EMERGENCY_STOP", "STOP_ALL"}

\* tick step 2b (lines 638-672): returns the loop and the command left for fusion
VoiceNavRouting(L, voice_command, selected, env) ==
  IF voice_command = NoVoice THEN [L |-> L, vc |-> NoVoice]
  ELSE IF voice_command.action = "NAVIGATE"
            /\ voice_command.command_type = "automated" THEN
    LET result == start_nav(L, voice_command.target, SelId(L), env)
    IN  [L |-> IF result.ok THEN Emit(result.L, "NAV") ELSE result.L,
         vc |-> NoVoice]
  ELSE IF voice_command.action \in StopWords THEN
    LET L1 == IF L.aps[selected].active
                THEN Emit(cancel_nav(L, SelId(L)), "NAV_CANCELLED") ELSE L
    IN  [L |-> IF L1.aq # <<>> THEN [L1 EXCEPT !.aq = <<>>, !.waiting = FALSE]
               ELSE L1,
         vc |-> voice_command]
  ELSE [L |-> L, vc |-> voice_command]

\* tick step 3b (lines 691-735): cancel confirmation and its auto-dismiss
CancelConfirm(L, is_double_clench_both, has_active_nav) ==
  LET L1 == IF is_double_clench_both /\ (has_active_nav \/ L.ccp) THEN
              IF L.ccp
                THEN Emit(Emit([_cancel_active_tasks(L) EXCEPT !.ccp = FALSE],
                               "cancel_confirmed"), "NAV_CANCELLED_BRAIN")
                ELSE Emit([L EXCEPT !.ccp = TRUE, !.cct = L.now],
                          "cancel_confirm_prompt")
            ELSE L
  IN  IF L1.ccp /\ L1.now - L1.cct > CANCEL_CONFIRM_TIMEOUT_S
        THEN Emit([L1 EXCEPT !.ccp = FALSE], "cancel_confirm_dismiss")
        ELSE L1

\* an arrival that advances the queue without removing the finished step
AutopilotBranchKeepsStep(L, sap, selected, env) ==
  LET u == autopilot_update(sap, env.pos, env.heading)
      L1 == [L EXCEPT !.aps[selected] = u.ap]
      L2 == IF u.ap.arrived THEN
              LET La == EmitA([L1 EXCEPT !.ccp = FALSE], "ARRIVED", u.ap.target_name)
              IN  IF La.waiting /\ La.aq # <<>>
                    THEN _advance_action_queue([La EXCEPT !.waiting = FALSE], env)
                    ELSE La
            ELSE L1
  IN  [L |-> L2, sap |-> u.ap, action |-> u.action, source |-> "autopilot"]

\* an autopilot branch that updates the autopilot and lets the robot idle
AutopilotBranchIdles(L, sap, selected, env) ==
  LET u == autopilot_update(sap, env.pos, env.heading)
  IN  [L |-> [L EXCEPT !.aps[selected] = u.ap], sap |-> u.ap,
       action |-> "IDLE", source |-> "autopilot"]

\* an autopilot branch that updates the autopilot of every robot with the
\* pose it has read
AutopilotBranchUpdatesAll(L, sap, selected, env) ==
  LET u == autopilot_update(sap, env.pos, env.heading)
      L1 == [L EXCEPT !.aps = [r \in Robots |->
                                 autopilot_update(L.aps[r], env.pos, env.heading).ap]]
  IN  [L |-> L1, sap |-> u.ap, action |-> u.action, source |-> "autopilot"]

\* tick step 3c, autopilot branch, up to the await of _speak (lines 738-757)
AutopilotBranchToSpeak(L, sap, selected, env) ==
  LET u == autopilot_update(sap, env.pos, env.heading)
      L1 == [L EXCEPT !.aps[selected] = u.ap]
  IN  [L |-> IF u.ap.arrived
               THEN EmitA([L1 EXCEPT !.ccp = FALSE], "ARRIVED", u.ap.target_name)
               ELSE L1,
       sap |-> u.ap, action |-> u.action, source |-> "autopilot"]

\* tick step 3c, autopilot branch, after the await of _speak (lines 758-762),
\* on the loop as the tick finds it when it goes on
AfterSpeak(L, env) ==
  IF L.waiting /\ L.aq # <<>>
    THEN _advance_action_queue([L EXCEPT !.aq = Tail(@), !.waiting = FALSE], env)
    ELSE L

\* tick step 3c, autopilot branch (lines 738-762); sap is the selected
\* robot's autopilot object, still the entry of _autopilots at this point
AutopilotBranch(L, sap, selected, env) ==
  LET u == autopilot_update(sap, env.pos, env.heading)
      L1 == [L EXCEPT !.aps[selected] = u.ap]
      L2 == IF u.ap.arrived THEN
              LET La == EmitA([L1 EXCEPT !.ccp = FALSE], "ARRIVED", u.ap.target_name)
              IN  IF La.waiting /\ La.aq # <<>>
                    THEN _advance_action_queue(
                           [La EXCEPT !.aq = Tail(@), !.waiting = FALSE], env)
                    ELSE La
            ELSE L1
  IN  [L |-> L2, sap |-> u.ap, action |-> u.action, source |-> "autopilot"]

\* tick step 3c, fusion branch (lines 763-780)
FusionBranch(L, sap, fused, cancel_handled, env) ==
  LET L1 == IF ~cancel_handled /\ fused.orchestration_event = "cancel"
              THEN Emit(_cancel_active_tasks(L), "ORCH_CANCEL") ELSE L
      L2 == IF fused.orchestration_task # NoTask
              THEN _dispatch_orchestration_task(L1, fused.orchestration_task, env)
              ELSE L1
  IN  [L |-> L2,
       sap |-> IF ~cancel_handled /\ fused.orchestration_event = "cancel"
                 THEN autopilot_cancel(sap) ELSE sap,
       action |-> fused.action, source |-> fused.source]

\* tick step 6c (lines 839-858)
SequentialTasks(L, env) ==
  IF L.seqt = <<>> THEN L
  ELSE LET next_task == Head(L.seqt)
       IN  IF ~L.aps[next_task.robot_id].active
             THEN LET r == start_nav([L EXCEPT !.seqt = Tail(@)],
                                     next_task.landmark, next_task.robot_id, env)
                  IN  IF r.ok THEN EmitA(r.L, "SEQ_TASK", next_task.robot_id)
                      ELSE r.L
             ELSE L

\* _VOICE_ACTION_MAP.get(cmd.action, cmd.action)
_VOICE_ACTION_MAP(a) ==
  CASE a = "FORWARD" -> "MOVE_FORWARD"
    [] a = "BACKWARD" -> "MOVE_BACKWARD"
    [] a = "LEFT" -> "ROTATE_LEFT"
    [] a = "RIGHT" -> "ROTATE_RIGHT"
    [] a = "STOP_ALL" -> "STOP"
    [] OTHER -> a

MapStep(cmd) == [cmd EXCEPT !.action = _VOICE_ACTION_MAP(cmd.action)]

_load_action_queue(L, steps, env) ==
  LET L1 == [L EXCEPT !.aq = [i \in 1..Len(steps) |-> MapStep(steps[i])],
                      !.waiting = FALSE]
  IN  _advance_action_queue(Emit(L1, "SEQUENCE"), env)

\* push_voice_command on the steps parse_sequence returned (<<>>: no command)
push_voice_command(L0, steps, env) ==
  LET L == [L0 EXCEPT !.msgs = <<>>, !.execs = <<>>]
  IN  IF steps = <<>> THEN L
      ELSE IF Len(steps) > 1 THEN _load_action_queue(L, steps, env)
      ELSE [L EXCEPT !.vq = Append(@, MapStep(steps[1]))]

_BCI_MAP ==
  [a \in {"ROTATE_LEFT", "ROTATE_RIGHT", "BOTH_FISTS", "SHIFT_GEAR",
          "ORCH_CONFIRM", "ORCH_CANCEL"} |->
     CASE a = "ROTATE_LEFT" -> <<"Left Fist", "QUICK_CLENCH">>
       [] a = "ROTATE_RIGHT" -> <<"Right Fist", "QUICK_CLENCH">>
       [] a = "BOTH_FISTS" -> <<"Both Fists", "QUICK_CLENCH">>
       [] a = "SHIFT_GEAR" -> <<"Tongue Tapping", "QUICK_CLENCH">>
       [] a = "ORCH_CONFIRM" -> <<"Both Fists", "HOLD_MEDIUM">>
       [] a = "ORCH_CANCEL" -> <<"Both Fists", "DOUBLE_CLENCH">>]

\* the direct actions of push_manual_command; any other string is IDLE
ManualActionMap == {"MOVE_FORWARD", "MOVE_BACKWARD", "GRAB", "RELEASE"}

\* push_manual_command, BCI-mapped branch after the cancel-confirm check
ManualGesture(L, brain_class, gesture_type, selected, env) ==
  LET h == handle_gesture(L.sm[selected],
                          GestureEvent(gesture_type, brain_class,
                                       IF gesture_type = "HOLD_MEDIUM" THEN 10 ELSE 2,
                                       None))
      L1 == [L EXCEPT !.sm[selected] = h.sm]
      L2 == IF h.result.orchestration_task # NoTask
              THEN _dispatch_orchestration_task(L1, h.result.orchestration_task, env)
              ELSE L1
      L3 == IF h.result.orchestration_event = "cancel"
              THEN _cancel_active_tasks(L2) ELSE L2
  IN  Exec(L3, h.result.action, selected)

\* dt is the time since the previous operation: the handler reads the clock
push_manual_command(L0, action_str, dt, env) ==
  LET L == [L0 EXCEPT !.now = @ + dt, !.msgs = <<>>, !.execs = <<>>]
      selected == SelId(L)
  IN  IF action_str \in DOMAIN _BCI_MAP THEN
        LET brain_class == _BCI_MAP[action_str][1]
            gesture_type == _BCI_MAP[action_str][2]
        IN  IF gesture_type = "DOUBLE_CLENCH" /\ brain_class = "Both Fists"
                 /\ (HasActiveNav(L) \/ L.ccp)
              THEN IF L.ccp
                     THEN Emit([_cancel_active_tasks(L) EXCEPT !.ccp = FALSE],
                               "cancel_confirmed")
                     ELSE Emit([L EXCEPT !.ccp = TRUE, !.cct = L.now],
                               "cancel_confirm_prompt")
              ELSE ManualGesture(L, brain_class, gesture_type, selected, env)
      ELSE IF action_str \in {"STOP", "RELAX"}
        THEN Exec([L EXCEPT !.sm[selected] = ClearToggle(@)], "IDLE", selected)
      ELSE Exec(L, IF action_str \in ManualActionMap THEN action_str ELSE "IDLE",
                selected)

\* the "cancel_nav" websocket message: control_loop.cancel_nav()
ws_cancel_nav(L0) ==
  cancel_nav([L0 EXCEPT !.msgs = <<>>, !.execs = <<>>], SelId(L0))

\* a reset that leaves the queued sequential tasks in place
FullResetKeepsTasks(L0) ==
  [L0 EXCEPT !.msgs = <<>>, !.execs = <<>>, !.sel = 0,
             !.sm = [r \in Robots |-> GearStateMachine],
             !.fusion = CommandFusion,
             !.holding = [r \in Robots |-> FALSE],
             !.pos = DefaultPositions, !.lat = 0,
             !.vq = <<>>, !.aq = <<>>, !.waiting = FALSE,
             !.aps = [r \in Robots |-> NoAutopilot],
             !.ccp = FALSE]

\* ControlLoop.full_reset
full_reset(L0) ==
  [L0 EXCEPT !.msgs = <<>>, !.execs = <<>>, !.sel = 0,
             !.sm = [r \in Robots |-> GearStateMachine],
             !.fusion = CommandFusion,
             !.holding = [r \in Robots |-> FALSE],
             !.pos = DefaultPositions, !.lat = 0,
             !.vq = <<>>, !.aq = <<>>, !.waiting = FALSE,
             !.aps = [r \in Robots |-> NoAutopilot],
             !.seqt = <<>>, !.ccp = FALSE]

\* the "set_gear" websocket message
ws_set_gear(L0, gear) ==
  [L0 EXCEPT !.msgs = <<>>, !.execs = <<>>, !.sm[SelId(L0)] = set_gear(@, gear)]

\* the "toggle_brain" and "toggle_voice" websocket messages
ws_toggle_brain(L0) ==
  [L0 EXCEPT !.msgs = <<>>, !.execs = <<>>, !.benabled = ~@]

ws_toggle_voice(L0) ==
  [L0 EXCEPT !.msgs = <<>>, !.execs = <<>>, !.venabled = ~@]

(***************************************************************************)
(* The running system.  loop is the ControlLoop.  out describes the last   *)
(* operation: its name, the robot selected when it began and, for a tick,  *)
(* the action and source of its state_update, the result of fusion.update, *)
(* the action of the voice command it popped, the command it passed to     *)
(* fusion (vc), whether voice_override_until > now held at that call, the   *)
(* selected robot's autopilot as step 3c found it (sap) and, when that was *)
(* active, the heading the simulator reported to its update.               *)
(* hist records, for the properties, the action of the most recent voice   *)
(* command fusion mapped, whether a cancel_confirm_prompt is still         *)
(* unanswered, the number of ticks run and, when log_on, the steps of a    *)
(* voice sequence and the GRAB and RELEASE calls executed so far.          *)
(***************************************************************************)
\* comp is the component under test of the specifications that run a
\* GearStateMachine, an Autopilot or a PathPlanner on its own; the
\* specifications of the control loop leave it at None
VARIABLES loop, out, hist, comp

vars == <<loop, out, hist, comp>>

\* robot_manager.active_robot_ids after construction
ActiveRobotChoices ==
  {<<"robot_0">>, <<"robot_1", "robot_0">>, <<"robot_0", "robot_1", "robot_2">>}

ControlLoop(active) ==
  [now |-> 0, sel |-> 0, sm |-> [r \in Robots |-> GearStateMachine],
   pos |-> DefaultPositions, lat |-> 0,
   fusion |-> CommandFusion, vq |-> <<>>, aq |-> <<>>, waiting |-> FALSE,
   aps |-> [r \in Robots |-> NoAutopilot], seqt |-> <<>>,
   ccp |-> FALSE, cct |-> 0, holding |-> [r \in Robots |-> FALSE],
   active |-> active, benabled |-> TRUE, venabled |-> TRUE,
   msgs |-> <<>>, execs |-> <<>>]

Out0 ==
  [op |-> "init", selected |-> "robot_0", action |-> "IDLE", source |-> "idle",
   fused |-> Fused0, voice |-> None, vc |-> NoVoice, hold |-> FALSE,
   sap |-> NoAutopilot, heading |-> None]

Hist0 == [ticks |-> 0, last_voice |-> None, prompt_open |-> FALSE,
          second_prompt |-> FALSE, log_on |-> FALSE, seq_log |-> <<>>,
          exec_log |-> <<>>]

Has(msgs, m) == \E i \in 1..Len(msgs) : msgs[i][1] = m

RECURSIVE PromptFold(_, _, _)
\* walks the broadcasts of one operation: a prompt opens the confirmation,
\* cancel_confirmed and cancel_confirm_dismiss close it; second_prompt records
\* a prompt broadcast while an earlier one was still open
PromptFold(h, msgs, i) ==
  IF i > Len(msgs) THEN h
  ELSE IF msgs[i][1] = "cancel_confirm_prompt"
    THEN PromptFold([h EXCEPT !.second_prompt = @ \/ h.prompt_open,
                              !.prompt_open = TRUE], msgs, i + 1)
  ELSE IF msgs[i][1] \in {"cancel_confirmed", "cancel_confirm_dismiss"}
    THEN PromptFold([h EXCEPT !.prompt_open = FALSE], msgs, i + 1)
  ELSE PromptFold(h, msgs, i + 1)

IsSeqMsg(m) == m[1] \in {"SEQ_NAV", "ARRIVED", "SEQ_ACT"}

IsGrip(e) == e[2] \in {"GRAB", "RELEASE"}

Record(h, L, o) ==
  LET h0 == IF o.op = "tick" THEN [h EXCEPT !.ticks = @ + 1] ELSE h
      h1 == IF o.op = "tick" /\ o.fused.source = "voice"
              THEN [h0 EXCEPT !.last_voice = o.fused.action] ELSE h0
      h2 == IF h.log_on
              THEN [h1 EXCEPT !.seq_log = @ \o SelectSeq(L.msgs, IsSeqMsg),
                              !.exec_log = @ \o SelectSeq(L.execs, IsGrip)]
              ELSE h1
  IN  PromptFold(h2, L.msgs, 1)

\* one operation's result becomes the next state
Commit(L, o) ==
  /\ loop' = L
  /\ out' = o
  /\ hist' = Record(hist, L, o)
  /\ UNCHANGED comp

HandlerOut(op, L) == [Out0 EXCEPT !.op = op, !.selected = SelId(L)]

\* left counts the ticks the runs may still take after the reset; before is
\* the first run as full_reset found it, kept until the next operation
Twin(L, phase, left, before) ==
  [twin |-> L, phase |-> phase, left |-> left, before |-> before]

\* one operation's results, one for each run, become the next state
TwinCommit(L, o, L2, left, before) ==
  /\ loop' = L
  /\ out' = o
  /\ hist' = Record(hist, L, o)
  /\ comp' = Twin(L2, "after", left, before)

\* what becomes of a tick's result: InOneRun commits it; InBothRuns gives the
\* same inputs to the second run's tick, and the two results are committed
\* together
InOneRun == [kind |-> "commit"]

InBothRuns == [kind |-> "twin"]

\* UntilSpoken lets the tick stop where it awaits _speak on an arrival; the
\* rest of the tick is taken up when the synthesis has returned
UntilSpoken == [kind |-> "await"]

NotSpeaking == [at |-> "idle"]

\* the tick suspended at line 754: sap, o and env are the locals it holds
\* (the selected autopilot object, the tick's results so far, the robot
\* state it has read)
Speaking(sap, o, env) == [at |-> "speak", sap |-> sap, o |-> o, env |-> env]

\* the tick has reached "await self._speak(...)" (lines 754-757)
AwaitSpeak(L, sap, o, env) ==
  /\ loop' = L
  /\ out' = [o EXCEPT !.op = "await_speak"]
  /\ hist' = hist
  /\ comp' = Speaking(sap, o, env)

\* a tick that could have stopped at the await has reached its end
SpokenCommit(L, o) ==
  /\ loop' = L
  /\ out' = o
  /\ hist' = Record(hist, L, o)
  /\ comp' = NotSpeaking

\* the clock read back to ClockAtStart after a tick: the loop compares time
\* stamps by their distance to the clock only, and ClockAtStart is beyond
\* every threshold, so a stamp further back than that is kept at 0 ("long
\* ago", as the stamps of a new loop are)
ClockAtStart == 24

Rebased(t, d) == IF t > d THEN t - d ELSE 0

Steady(L) ==
  LET d == L.now - ClockAtStart
  IN  [L EXCEPT !.now = ClockAtStart,
                !.cct = Rebased(@, d),
                !.fusion.voice_override_until = Rebased(@, d),
                !.fusion.gesture.hold_start = Rebased(@, d),
                !.fusion.gesture.select_start = Rebased(@, d),
                !.fusion.gesture.last_quick_time = Rebased(@, d)]

SteadyCommit(L, o) ==
  /\ loop' = Steady(L)
  /\ out' = o
  /\ hist' = [Record(hist, L, o) EXCEPT !.ticks = 0]
  /\ UNCHANGED comp

RECURSIVE tick(_, _, _, _, _)
Finish(then, L, o, brain, dt, env) ==
  IF then.kind = "commit" THEN Commit(L, o)
  ELSE IF then.kind = "await" THEN SpokenCommit(L, o)
  ELSE IF then.kind = "twin"
    THEN tick(comp.twin, brain, dt, env, [kind |-> "second", L |-> L, o |-> o])
  ELSE TwinCommit(then.L, then.o, L, comp.left - 1, None)

\* tick steps 4 to 6c (lines 785-858) and the end of the tick: L is the loop
\* after step 3c, sap the selected autopilot object the tick holds, o the
\* tick's results so far
TickRest(then, L, sap, o, brain, dt, env) ==
  \E Lg \in {Exec(L, o.action, o.selected)} :
  \E Lh \in {[Lg EXCEPT !.sm[o.selected].holding_item = Lg.holding[o.selected],
                        !.pos[o.selected] = env.pos,
                        !.lat = IF @ < LatencyWindow THEN @ + 1 ELSE @]} :
  \E Li \in {IF sap.target_name # None /\ ~sap.active
               THEN [Lh EXCEPT !.aps[o.selected] = NoAutopilot] ELSE Lh} :
  \E Lj \in {SequentialTasks(Li, env)} :
    Finish(then, Lj, o, brain, dt, env)

\* ControlLoop.tick, one whole tick; dt is the time since the previous step.
\* Each value the method computes on its way is bound once, in the order of
\* the code, and the tick ends by handing on the loop it has built.
tick(L0, brain, dt, env, then) ==
  LET selected == SelId(L0)
      brain_result == IF L0.benabled THEN brain ELSE NoBrain
      popped == IF L0.venabled /\ L0.vq # <<>> THEN Head(L0.vq) ELSE NoVoice
  IN
  \E Lb \in {[L0 EXCEPT !.now = @ + dt, !.msgs = <<>>, !.execs = <<>>,
                        !.vq = IF ~L0.venabled \/ @ = <<>> THEN <<>> ELSE Tail(@)]} :
  \E nav \in {VoiceNavRouting(Lb, popped, selected, env)} :
  \E Lc \in {IF nav.L.aq # <<>> /\ ~nav.L.waiting
               THEN _advance_action_queue(nav.L, env) ELSE nav.L} :
  \E fu \in {fusion_update(Lc.fusion, Lc.sm[selected], brain_result, nav.vc, Lc.now)} :
  \E Ld \in {[Lc EXCEPT !.fusion = fu.fusion, !.sm[selected] = fu.sm]} :
  LET hold == Lc.now < Lc.fusion.voice_override_until
      fused == fu.fused
      selected_autopilot == Ld.aps[selected]
      has_active_nav == HasActiveNav(Ld)
      is_double_clench_both == /\ fused.source = "brain_gesture"
                               /\ fused.gesture_type = "DOUBLE_CLENCH"
                               /\ fused.brain_class \in {"Both Fists", "Both Firsts"}
  IN
  \E Le \in {IF fused.source = "brain_gesture"
                  /\ fused.gesture_type = "SELECT_SEQUENCE"
                  /\ fused.select_direction # None
               THEN select_by_direction(Ld, fused.select_direction) ELSE Ld} :
  LET cancel_handled == is_double_clench_both /\ (has_active_nav \/ Le.ccp)
  IN
  \E Lf \in {CancelConfirm(Le, is_double_clench_both, has_active_nav)} :
  \E sap1 \in {IF cancel_handled /\ Le.ccp
                 THEN autopilot_cancel(selected_autopilot) ELSE selected_autopilot} :
  \E br \in {IF ~sap1.active
               THEN FusionBranch(Lf, sap1, fused, cancel_handled, env)
             ELSE IF then.kind = "await"
               THEN AutopilotBranchToSpeak(Lf, sap1, selected, env)
             ELSE AutopilotBranch(Lf, sap1, selected, env)} :
  \E o \in {[op |-> "tick", selected |-> selected, action |-> br.action,
             source |-> br.source, fused |-> fused, voice |-> popped.action,
             vc |-> nav.vc, hold |-> hold, sap |-> sap1,
             heading |-> IF sap1.active THEN env.heading ELSE None]} :
    IF then.kind = "await" /\ sap1.active /\ br.sap.arrived
      THEN AwaitSpeak(br.L, br.sap, o, env)
      ELSE TickRest(then, br.L, br.sap, o, brain, dt, env)

\* tick steps 4 to 6c once more, for the ticks of a loop that runs without
\* end: as TickRest, committed with the clock read back
SteadyRest(L, sap, o, env) ==
  \E Lg \in {Exec(L, o.action, o.selected)} :
  \E Lh \in {[Lg EXCEPT !.sm[o.selected].holding_item = Lg.holding[o.selected],
                        !.pos[o.selected] = env.pos,
                        !.lat = IF @ < LatencyWindow THEN @ + 1 ELSE @]} :
  \E Li \in {IF sap.target_name # None /\ ~sap.active
               THEN [Lh EXCEPT !.aps[o.selected] = NoAutopilot] ELSE Lh} :
  \E Lj \in {SequentialTasks(Li, env)} :
    SteadyCommit(Lj, o)

\* ControlLoop.tick once more, for the ticks of a loop that runs without
\* end: the steps of tick in one run, with no stop at the await, ending in
\* SteadyRest
SteadyTick(L0, brain, dt, env) ==
  LET selected == SelId(L0)
      brain_result == IF L0.benabled THEN brain ELSE NoBrain
      popped == IF L0.venabled /\ L0.vq # <<>> THEN Head(L0.vq) ELSE NoVoice
  IN
  \E Lb \in {[L0 EXCEPT !.now = @ + dt, !.msgs = <<>>, !.execs = <<>>,
                        !.vq = IF ~L0.venabled \/ @ = <<>> THEN <<>> ELSE Tail(@)]} :
  \E nav \in {VoiceNavRouting(Lb, popped, selected, env)} :
  \E Lc \in {IF nav.L.aq # <<>> /\ ~nav.L.waiting
               THEN _advance_action_queue(nav.L, env) ELSE nav.L} :
  \E fu \in {fusion_update(Lc.fusion, Lc.sm[selected], brain_result, nav.vc, Lc.now)} :
  \E Ld \in {[Lc EXCEPT !.fusion = fu.fusion, !.sm[selected] = fu.sm]} :
  LET hold == Lc.now < Lc.fusion.voice_override_until
      fused == fu.fused
      selected_autopilot == Ld.aps[selected]
      has_active_nav == HasActiveNav(Ld)
      is_double_clench_both == /\ fused.source = "brain_gesture"
                               /\ fused.gesture_type = "DOUBLE_CLENCH"
                               /\ fused.brain_class \in {"Both Fists", "Both Firsts"}
  IN
  \E Le \in {IF fused.source = "brain_gesture"
                  /\ fused.gesture_type = "SELECT_SEQUENCE"
                  /\ fused.select_direction # None
               THEN select_by_direction(Ld, fused.select_direction) ELSE Ld} :
  LET cancel_handled == is_double_clench_both /\ (has_active_nav \/ Le.ccp)
  IN
  \E Lf \in {CancelConfirm(Le, is_double_clench_both, has_active_nav)} :
  \E sap1 \in {IF cancel_handled /\ Le.ccp
                 THEN autopilot_cancel(selected_autopilot) ELSE selected_autopilot} :
  \E br \in {IF ~sap1.active
               THEN FusionBranch(Lf, sap1, fused, cancel_handled, env)
               ELSE AutopilotBranch(Lf, sap1, selected, env)} :
  \E o \in {[op |-> "tick", selected |-> selected, action |-> br.action,
             source |-> br.source, fused |-> fused, voice |-> popped.action,
             vc |-> nav.vc, hold |-> hold, sap |-> sap1,
             heading |-> IF sap1.active THEN env.heading ELSE None]} :
    SteadyRest(br.L, br.sap, o, env)

(***************************************************************************)
(* Actions.  Each takes the sets its inputs are drawn from, so that the    *)
(* specifications below can run the same operations under different        *)
(* environments; MaxQueue caps the voice queue a client can build up.      *)
(***************************************************************************)

Brain(label) == [label |-> label, gated |-> FALSE]

Direct(action) == [command_type |-> "direct_override", action |-> action, target |-> None]

Navigate(target) == [command_type |-> "automated", action |-> "NAVIGATE", target |-> target]

Env0 == [pos |-> <<0, 0>>, heading |-> "aligned", plan |-> "goal"]

Tick(Brains, Dts, Envs, MaxTime, MaxTicks) ==
  \E brain \in Brains, dt \in Dts, env \in Envs :
    /\ loop.now + dt <= MaxTime
    /\ hist.ticks < MaxTicks
    /\ tick(loop, brain, dt, env, InOneRun)

PushVoice(Sequences, Envs, MaxQueue) ==
  \E steps \in Sequences, env \in Envs :
    /\ Len(loop.vq) < MaxQueue
    /\ \E L \in {push_voice_command(loop, steps, env)} :
         Commit(L, HandlerOut("push_voice_command", L))

PushManual(Actions, Dts, Envs, MaxTime) ==
  \E action_str \in Actions, dt \in Dts, env \in Envs :
    /\ loop.now + dt <= MaxTime
    /\ \E L \in {push_manual_command(loop, action_str, dt, env)} :
         Commit(L, HandlerOut("push_manual_command", L))

CancelNav ==
  \E L \in {ws_cancel_nav(loop)} : Commit(L, HandlerOut("cancel_nav", L))

FullReset ==
  \E L \in {full_reset(loop)} : Commit(L, HandlerOut("full_reset", L))

SetGear(Gears) ==
  \E gear \in Gears :
    \E L \in {ws_set_gear(loop, gear)} : Commit(L, HandlerOut("set_gear", L))

ToggleBrain ==
  \E L \in {ws_toggle_brain(loop)} : Commit(L, HandlerOut("toggle_brain", L))

ToggleVoice ==
  \E L \in {ws_toggle_voice(loop)} : Commit(L, HandlerOut("toggle_voice", L))

InitLoop(Actives, log_on) ==
  /\ loop \in {ControlLoop(a) : a \in Actives}
  /\ out = Out0
  /\ hist = [Hist0 EXCEPT !.log_on = log_on]
  /\ comp = None

(***************************************************************************)
(* SpecVoice: brain labels and spoken direct commands, no navigation.      *)
(***************************************************************************)
MaxTimeVoice == 12

MaxQueueVoice == 1

VoiceBrains == {NoBrain, Brain("Relax"), Brain("Left Fist")}

VoiceDts == {1, 3}

VoiceSequences == {<<Direct("STOP")>>, <<Direct("LEFT")>>, <<Direct("SHIFT_GEAR")>>}

InitVoice == InitLoop({<<"robot_0">>}, FALSE)

TickVoice == Tick(VoiceBrains, VoiceDts, {Env0}, MaxTimeVoice, MaxTimeVoice)

PushVoiceVoice == PushVoice(VoiceSequences, {Env0}, MaxQueueVoice)

NextVoice == TickVoice \/ PushVoiceVoice

SpecVoice == InitVoice /\ [][NextVoice]_vars

\* the clients send at most one message between two ticks
Paced == out.op \in {"init", "tick"}

(***************************************************************************)
(* SpecCancel: navigation started by voice, the cancel confirmation from   *)
(* the gesture pipeline and from the manual ORCH_CANCEL, a spoken STOP,    *)
(* arrival, a manual toggle and full_reset.                                *)
(***************************************************************************)
MaxTicksCancel == 8

MaxQueueCancel == 1

CancelBrains == {NoBrain, Brain("Both Fists")}

CancelDts == {1}

CancelSequences == {<<Navigate("Table")>>, <<Direct("STOP")>>}

CancelManual == {"ORCH_CANCEL", "ROTATE_LEFT"}

CancelManualDts == {0}

CancelEnvs ==
  {[pos |-> p, heading |-> "aligned", plan |-> "goal"] :
     p \in {<<0, 0>>, FACTORY_WAYPOINTS["Table"]}}

InitCancel == InitLoop({<<"robot_0">>}, FALSE)

TickCancel ==
  Tick(CancelBrains, CancelDts, CancelEnvs, MaxTicksCancel, MaxTicksCancel)

PushVoiceCancel == PushVoice(CancelSequences, {Env0}, MaxQueueCancel)

PushManualCancel ==
  PushManual(CancelManual, CancelManualDts, {Env0}, MaxTicksCancel)

NextCancel ==
  \/ TickCancel
  \/ Paced /\ PushVoiceCancel
  \/ Paced /\ PushManualCancel
  \/ Paced /\ FullReset

SpecCancel == InitCancel /\ [][NextCancel]_vars

(***************************************************************************)
(* SpecTimeout: the cancel confirmation against its timeout.  A tick may   *)
(* come late (TickLate after the previous operation), and a manual command *)
(* arrives at the time of the last tick or a quarter second after it.      *)
(***************************************************************************)
MaxTimeTimeout == 27

MaxTicksTimeout == 6

TickLate == 18

TimeoutDts == {1, TickLate}

TimeoutManualDts == {0, 1}

InitTimeout == InitLoop({<<"robot_0">>}, FALSE)

TickTimeout ==
  Tick(CancelBrains, TimeoutDts, {Env0}, MaxTimeTimeout, MaxTicksTimeout)

PushVoiceTimeout == PushVoice({<<Navigate("Table")>>}, {Env0}, MaxQueueCancel)

PushManualTimeout ==
  PushManual({"ORCH_CANCEL"}, TimeoutManualDts, {Env0}, MaxTimeTimeout)

NextTimeout ==
  \/ TickTimeout
  \/ Paced /\ PushVoiceTimeout
  \/ Paced /\ PushManualTimeout

SpecTimeout == InitTimeout /\ [][NextTimeout]_vars

(***************************************************************************)
(* SpecStop: spoken stop commands against navigation started by voice, by  *)
(* a voice sequence and by orchestration dispatch from the manual          *)
(* controls.                                                               *)
(***************************************************************************)
MaxTicksStop == 6

MaxQueueStop == 1

StopSequences ==
  {<<Direct("STOP")>>, <<Direct("EMERGENCY_STOP")>>, <<Direct("CANCEL_NAV")>>,
   <<Navigate("Table")>>, <<Navigate("Table"), Direct("GRAB")>>}

StopManual == {"ORCH_CONFIRM", "ROTATE_RIGHT"}

InitStop == InitLoop(ActiveRobotChoices, FALSE)

TickStop == Tick({NoBrain}, {1}, CancelEnvs, MaxTicksStop, MaxTicksStop)

PushVoiceStop == PushVoice(StopSequences, {Env0}, MaxQueueStop)

PushManualStop == PushManual(StopManual, {0}, {Env0}, MaxTicksStop)

SetGearStop == SetGear({"ORCHESTRATE"})

NextStop ==
  \/ TickStop
  \/ PushVoiceStop
  \/ Paced /\ PushManualStop
  \/ Paced /\ SetGearStop

SpecStop == InitStop /\ [][NextStop]_vars

(***************************************************************************)
(* SpecSeq: one four-step voice sequence and nothing else; the simulator   *)
(* reports the robot away from both landmarks or at one of them.           *)
(***************************************************************************)
MaxTicksSeq == 8

SeqSteps ==
  <<Navigate("Conveyor"), Direct("GRAB"), Navigate("Pallet 2"), Direct("RELEASE")>>

SeqEnvs ==
  {[pos |-> p, heading |-> h, plan |-> pl] :
     p \in {<<0, 0>>, FACTORY_WAYPOINTS["Conveyor"], FACTORY_WAYPOINTS["Pallet 2"]},
     h \in Headings, pl \in PlanShapes}

InitSeq == InitLoop({<<"robot_0">>}, TRUE)

TickSeq == Tick({NoBrain, Brain("Relax")}, {1}, SeqEnvs, MaxTicksSeq, MaxTicksSeq)

LoadSeq ==
  /\ hist.seq_log = <<>> /\ loop.aq = <<>>
  /\ PushVoice({SeqSteps}, SeqEnvs, MaxQueueStop)

NextSeq == TickSeq \/ LoadSeq

SpecSeq == InitSeq /\ [][NextSeq]_vars

(***************************************************************************)
(* SpecOrder: spoken commands pushed between ticks, single commands and    *)
(* multi-step sequences, up to MaxQueueOrder single commands waiting.      *)
(***************************************************************************)
MaxTicksOrder == 3

MaxQueueOrder == 2

OrderSequences ==
  {<<Direct("FORWARD")>>, <<Direct("LEFT")>>,
   <<Navigate("Table"), Direct("GRAB")>>,
   <<Direct("GRAB"), Navigate("Table"), Direct("RELEASE")>>}

InitOrder == InitLoop({<<"robot_0">>}, FALSE)

TickOrder == Tick({NoBrain}, {1}, {Env0}, MaxTicksOrder, MaxTicksOrder)

PushVoiceOrder == PushVoice(OrderSequences, {Env0}, MaxQueueOrder)

NextOrder == TickOrder \/ PushVoiceOrder

SpecOrder == InitOrder /\ [][NextOrder]_vars

(***************************************************************************)
(* SpecReset: two runs of the loop around full_reset.  loop is the first   *)
(* run, comp.twin the second.  Before the reset (comp.phase = "before")    *)
(* the first run receives ticks, spoken and manual commands, set_gear,     *)
(* toggle_brain and toggle_voice while the second, just constructed,       *)
(* receives nothing.  FullResetBoth calls full_reset in both runs at the   *)
(* same clock value; from then on every input goes to both runs.           *)
(***************************************************************************)
MaxTicksBefore == 4

MaxTicksAfter == 2

MaxTimeReset == LONG_HOLD_THRESHOLD_S + MaxTicksBefore + MaxTicksAfter

ResetBrains == {Brain("Left Fist"), Brain("Both Fists")}

ResetDts == {1, LONG_HOLD_THRESHOLD_S}

ResetSequences == {<<Navigate("Table")>>, <<Navigate("Table"), Direct("GRAB")>>}

ResetManual == {"ORCH_CONFIRM", "ROTATE_LEFT"}

ResetActives == {<<"robot_1", "robot_0">>}

AfterBrains == {NoBrain, Brain("Left Fist")}

AfterSequences == {<<Navigate("Table")>>}

AfterManual == {"ROTATE_LEFT"}

InitReset ==
  /\ loop \in {ControlLoop(a) : a \in ResetActives}
  /\ out = Out0
  /\ hist = Hist0
  /\ comp = Twin(loop, "before", MaxTicksAfter, None)

Before == comp.phase = "before"

TickReset ==
  /\ Before
  /\ Tick(ResetBrains, ResetDts, CancelEnvs, MaxTimeReset, MaxTicksBefore)

PushVoiceReset == Before /\ PushVoice(ResetSequences, {Env0}, MaxQueueCancel)

PushManualReset == Before /\ PushManual(ResetManual, {0}, {Env0}, MaxTimeReset)

SetGearReset == Before /\ SetGear({"ORCHESTRATE"})

ToggleBrainReset == Before /\ ToggleBrain

ToggleVoiceReset == Before /\ ToggleVoice

FullResetBoth ==
  /\ Before
  /\ \E L \in {full_reset(loop)} :
       TwinCommit(L, HandlerOut("full_reset", L),
                  [full_reset(comp.twin) EXCEPT !.now = loop.now], comp.left, loop)

TwinTick ==
  \E brain \in AfterBrains, dt \in {1}, env \in {Env0} :
    /\ ~Before
    /\ loop.now + dt <= MaxTimeReset
    /\ comp.left > 0
    /\ tick(loop, brain, dt, env, InBothRuns)

TwinPushVoice ==
  \E steps \in AfterSequences :
    /\ ~Before
    /\ Len(loop.vq) < MaxQueueCancel
    /\ \E L \in {push_voice_command(loop, steps, Env0)} :
         TwinCommit(L, HandlerOut("push_voice_command", L),
                    push_voice_command(comp.twin, steps, Env0), comp.left, None)

TwinPushManual ==
  \E action_str \in AfterManual :
    /\ ~Before
    /\ \E L \in {push_manual_command(loop, action_str, 0, Env0)} :
         TwinCommit(L, HandlerOut("push_manual_command", L),
                    push_manual_command(comp.twin, action_str, 0, Env0), comp.left, None)

NextReset ==
  \/ TickReset
  \/ Paced /\ PushVoiceReset
  \/ Paced /\ PushManualReset
  \/ Paced /\ SetGearReset
  \/ Paced /\ ToggleBrainReset
  \/ Paced /\ ToggleVoiceReset
  \/ FullResetBoth
  \/ TwinTick
  \/ Paced /\ TwinPushVoice
  \/ Paced /\ TwinPushManual

SpecReset == InitReset /\ [][NextReset]_vars

(***************************************************************************)
(* SpecNav: start_nav called with names of every kind (a canonical name,   *)
(* an alias, a fragment of a name, an unknown token, aliases of landmarks  *)
(* the waypoint table does not hold) between ticks and spoken commands.    *)
(* comp keeps the last call: its arguments, the loop before it and what it *)
(* returned.                                                               *)
(***************************************************************************)
MaxTicksNav == 3

NavTargets == {"Table", "the table", "tab", "zone_A1", "charger", "Charging Station"}

NavSequences == {<<Navigate("Conveyor")>>, <<Navigate("Table"), Direct("GRAB")>>}

InitNav == InitLoop({<<"robot_0">>}, FALSE)

TickNav == Tick({NoBrain}, {1}, {Env0}, MaxTicksNav, MaxTicksNav)

PushVoiceNav == PushVoice(NavSequences, {Env0}, MaxQueueCancel)

StartNav ==
  \E target_name \in NavTargets, robot_id \in Robots :
    \E r \in {start_nav([loop EXCEPT !.msgs = <<>>, !.execs = <<>>],
                        target_name, robot_id, Env0)} :
      /\ loop' = r.L
      /\ out' = HandlerOut("start_nav", r.L)
      /\ hist' = Record(hist, r.L, out')
      /\ comp' = [target_name |-> target_name, robot_id |-> robot_id,
                  before |-> loop, ok |-> r.ok, error |-> r.error,
                  raised |-> r.raised]

NextNav ==
  \/ TickNav
  \/ Paced /\ PushVoiceNav
  \/ StartNav

SpecNav == InitNav /\ [][NextNav]_vars

(***************************************************************************)
(* SpecSource: a navigation to the Table while the pilot toggles a         *)
(* rotation with a fist and speaks "forward"; the simulator reports the    *)
(* robot at the start or at the Table, turned away from the waypoint or    *)
(* towards it.                                                             *)
(***************************************************************************)
MaxTicksSource == 6

SourceBrains == {NoBrain, Brain("Left Fist")}

SourceSequences == {<<Navigate("Table")>>, <<Direct("FORWARD")>>}

SourceEnvs ==
  {[pos |-> p, heading |-> h, plan |-> "goal"] :
     p \in {<<0, 0>>, FACTORY_WAYPOINTS["Table"]}, h \in {"left", "aligned"}}

InitSource == InitLoop({<<"robot_0">>}, FALSE)

TickSource == Tick(SourceBrains, {1}, SourceEnvs, MaxTicksSource, MaxTicksSource)

PushVoiceSource == PushVoice(SourceSequences, {Env0}, MaxQueueVoice)

NextSource ==
  \/ TickSource
  \/ Paced /\ PushVoiceSource

SpecSource == InitSource /\ [][NextSource]_vars

(***************************************************************************)
(* SpecSpeak: the tick as the task it is.  The control loop runs tick in   *)
(* one asyncio task and every websocket message is handled in another, so  *)
(* a handler can run wherever the tick awaits.  The tick is split at the   *)
(* await of _speak on an arrival (line 754), where it stays until the      *)
(* worker thread has returned from VoiceFeedback.speak; the awaits of the  *)
(* broadcasts and the other awaits of _speak are not split.                *)
(***************************************************************************)
MaxTicksSpeak == 5

MaxTimeSpeak == 8

\* how long the synthesis takes, in quarter seconds
SynthesisTimes == {0, 4}

SpeakBrains == {NoBrain, Brain("Left Fist")}

SpeakSequences ==
  {<<Navigate("Table")>>, <<Direct("STOP")>>, <<Navigate("Conveyor"), Direct("GRAB")>>}

SpeakEnvs ==
  {[pos |-> p, heading |-> "aligned", plan |-> "goal"] :
     p \in {<<0, 0>>, FACTORY_WAYPOINTS["Table"]}}

\* the "reset" websocket message: state_machine.reset() of the selected robot
ws_reset(L0) ==
  [L0 EXCEPT !.msgs = <<>>, !.execs = <<>>, !.sm[SelId(L0)] = GearStateMachine]

InitSpeak ==
  /\ loop = ControlLoop(<<"robot_0">>)
  /\ out = Out0
  /\ hist = Hist0
  /\ comp = NotSpeaking

\* at most one message is handled between two steps of the loop's task
BetweenSteps == out.op \in {"init", "tick", "await_speak"}

\* the loop's task starts a tick when the previous one has ended
TickSpeak ==
  /\ comp.at = "idle"
  /\ \E brain \in SpeakBrains, env \in SpeakEnvs :
       /\ loop.now + 1 <= MaxTimeSpeak
       /\ hist.ticks < MaxTicksSpeak
       /\ tick(loop, brain, 1, env, UntilSpoken)

\* the worker thread has returned and the tick goes on from line 758
SpeechDone ==
  /\ comp.at = "speak"
  /\ \E d \in SynthesisTimes :
       /\ loop.now + d <= MaxTimeSpeak
       /\ \E L \in {AfterSpeak([loop EXCEPT !.now = @ + d], comp.env)} :
            TickRest(UntilSpoken, L, comp.sap, comp.o, NoBrain, 0, comp.env)

PushVoiceSpeak == BetweenSteps /\ PushVoice(SpeakSequences, {Env0}, MaxQueueVoice)

PushManualSpeak == BetweenSteps /\ PushManual({"GRAB"}, {0}, {Env0}, MaxTimeSpeak)

CancelNavSpeak == BetweenSteps /\ CancelNav

SetGearSpeak == BetweenSteps /\ SetGear({"FORWARD"})

ResetSpeak ==
  /\ BetweenSteps
  /\ \E L \in {ws_reset(loop)} : Commit(L, HandlerOut("reset", L))

NextSpeak ==
  \/ TickSpeak
  \/ SpeechDone
  \/ PushVoiceSpeak
  \/ PushManualSpeak
  \/ CancelNavSpeak
  \/ SetGearSpeak
  \/ ResetSpeak

SpecSpeak == InitSpeak /\ [][NextSpeak]_vars

(***************************************************************************)
(* SpecGear: every road to a change of gear.  Tongue Tapping decoded by    *)
(* the brain goes through the recognizer, the manual SHIFT_GEAR through    *)
(* handle_gesture, the spoken SHIFT_GEAR and SET_GEAR commands through the *)
(* fusion, set_gear comes from a client and a navigation started by voice  *)
(* or by an orchestration task puts the robot into FORWARD.  The manual    *)
(* ROTATE_RIGHT and ORCH_CONFIRM move the orchestration selection.         *)
(***************************************************************************)
MaxTimeGear == 11

MaxTicksGear == 4

GearBrains == {Brain("Tongue Tapping"), Brain("Relax")}

GearDts == {2, 5}

GearSequences ==
  {<<Direct("SHIFT_GEAR")>>, <<Direct("SET_GEAR_NEUTRAL")>>,
   <<Direct("SET_GEAR_ORCHESTRATE")>>, <<Navigate("Table")>>}

GearManual == {"SHIFT_GEAR", "ROTATE_RIGHT", "ORCH_CONFIRM"}

InitGear == InitLoop({<<"robot_0">>}, FALSE)

TickGear == Tick(GearBrains, GearDts, {Env0}, MaxTimeGear, MaxTicksGear)

PushVoiceGear == Paced /\ PushVoice(GearSequences, {Env0}, MaxQueueVoice)

PushManualGear == PushManual(GearManual, {0}, {Env0}, MaxTimeGear)

SetGearGear == Paced /\ SetGear({"REVERSE", "ORCHESTRATE"})

NextGearSpec ==
  \/ TickGear
  \/ PushVoiceGear
  \/ PushManualGear
  \/ SetGearGear

SpecGear == InitGear /\ [][NextGearSpec]_vars

(***************************************************************************)
(* SpecFleet: two active robots with a navigation each.  The manual        *)
(* ORCH_CONFIRM and a medium hold of Both Fists dispatch MOVE_TO Shelf A   *)
(* to both; a long hold of Both Fists, Left Fist and a re-clench select    *)
(* the other robot; set_gear and cancel_nav act on the selected robot, the *)
(* manual ORCH_CANCEL, confirmed by a second one, cancels every navigation.*)
(***************************************************************************)
MaxTimeFleet == 26

MaxTicksFleet == 4

FleetBrains == {Brain("Both Fists"), Brain("Left Fist")}

\* a tick after the last one, after a medium hold, after a long hold
FleetDts == {1, 7, 17}

FleetEnvs ==
  {[pos |-> p, heading |-> "aligned", plan |-> "start_goal"] :
     p \in {<<0, 0>>, FACTORY_WAYPOINTS["Shelf A"]}}

FleetEnv0 == [pos |-> <<0, 0>>, heading |-> "aligned", plan |-> "start_goal"]

InitFleet == InitLoop({<<"robot_0", "robot_1">>}, FALSE)

TickFleet == Tick(FleetBrains, FleetDts, FleetEnvs, MaxTimeFleet, MaxTicksFleet)

PushManualFleet == PushManual({"ORCH_CONFIRM"}, {0}, {FleetEnv0}, MaxTimeFleet)

OrchCancelFleet ==
  Paced /\ PushManual({"ORCH_CANCEL"}, {0}, {FleetEnv0}, MaxTimeFleet)

SetGearFleet == SetGear({"ORCHESTRATE"})

CancelNavFleet == Paced /\ CancelNav

NextFleet ==
  \/ TickFleet
  \/ PushManualFleet
  \/ OrchCancelFleet
  \/ SetGearFleet
  \/ CancelNavFleet

SpecFleet == InitFleet /\ [][NextFleet]_vars

\* the loop is not run by the specifications of a single component
IdleLoop ==
  /\ loop = ControlLoop(<<"robot_0">>)
  /\ out = Out0
  /\ hist = Hist0

(***************************************************************************)
(* SpecSM: one GearStateMachine driven by gesture events, by set_gear, by  *)
(* the loop's copy of the simulator's holding flag into holding_item       *)
(* (control_loop.py lines 786-787) and by reset.  comp keeps the machine   *)
(* before the last call, the gesture given and the result returned.        *)
(***************************************************************************)
SMClasses ==
  {"Left Fist", "Left First", "Right Fist", "Both Fists", "Both Firsts",
   "Tongue Tapping", "Relax"}

SMGestureTypes ==
  {"QUICK_CLENCH", "HOLD_MEDIUM", "HOLD_LONG", "DOUBLE_CLENCH", "SELECT_SEQUENCE"}

SMGears == {GEAR_CYCLE[i] : i \in 1..Len(GEAR_CYCLE)}

SMCall(op, before, gesture, sm, result) ==
  [op |-> op, before |-> before, gesture |-> gesture, sm |-> sm, result |-> result]

InitSM ==
  /\ IdleLoop
  /\ comp = SMCall("init", GearStateMachine, NoGesture, GearStateMachine, Result0)

SMHandleGesture ==
  \E gt \in SMGestureTypes, bc \in SMClasses :
    LET gesture == GestureEvent(gt, bc, 0,
                     IF gt = "SELECT_SEQUENCE" THEN "left" ELSE None)
        h == handle_gesture(comp.sm, gesture)
    IN  comp' = SMCall("handle_gesture", comp.sm, gesture, h.sm, h.result)

SMSetGear ==
  \E gear \in SMGears :
    comp' = SMCall("set_gear", comp.sm, NoGesture, set_gear(comp.sm, gear), Result0)

SMHoldingSync ==
  \E holding \in BOOLEAN :
    comp' = SMCall("holding", comp.sm, NoGesture,
                   [comp.sm EXCEPT !.holding_item = holding], Result0)

SMReset ==
  comp' = SMCall("reset", comp.sm, NoGesture, GearStateMachine, Result0)

NextSM ==
  /\ SMHandleGesture \/ SMSetGear \/ SMHoldingSync \/ SMReset
  /\ UNCHANGED <<loop, out, hist>>

SpecSM == InitSM /\ [][NextSM]_vars

(***************************************************************************)
(* SpecAP: one Autopilot instance under update and cancel calls.  Its path *)
(* is what the planner returned at construction: nothing (the fallback to  *)
(* the target alone) or up to MaxWaypoints points ending at the target.    *)
(***************************************************************************)
MaxWaypoints == 3

\* the last point is closer to the Table than WAYPOINT_ARRIVAL_DIST
APPoints == {<<0, 0>>, <<4, 0>>, <<8, 4>>, FACTORY_WAYPOINTS["Table"], <<7, 6>>}

APPaths ==
  {<<>>} \cup
  UNION {{p \o <<FACTORY_WAYPOINTS["Table"]>> : p \in [1..n -> APPoints]} :
           n \in 0..(MaxWaypoints - 1)}

\* robot_xy is the position the call was given, before the autopilot as the
\* call found it
APCall(op, ap, action, robot_xy, before) ==
  [op |-> op, ap |-> ap, action |-> action, robot_xy |-> robot_xy, before |-> before]

InitAP ==
  /\ IdleLoop
  /\ comp \in {APCall("init", Autopilot("Table", FACTORY_WAYPOINTS["Table"], path),
                       "IDLE", <<0, 0>>, NoAutopilot) : path \in APPaths}

APUpdate ==
  \E robot_xy \in APPoints, heading \in Headings :
    LET u == autopilot_update(comp.ap, robot_xy, heading)
    IN  comp' = APCall("update", u.ap, u.action, robot_xy, comp.ap)

APCancel == comp' = APCall("cancel", autopilot_cancel(comp.ap), "IDLE", comp.robot_xy, comp.ap)

NextAP ==
  /\ APUpdate \/ APCancel
  /\ UNCHANGED <<loop, out, hist>>

SpecAP == InitAP /\ [][NextAP]_vars

(***************************************************************************)
(* SpecPath: find_path on a planner of GridRows x GridCols cells.  The     *)
(* scene is a list of up to two obstacles, the start and the goal are cell *)
(* centres, a point on a cell corner or points outside the map.            *)
(***************************************************************************)
GridRows == 5

GridCols == 6

SceneObstacles ==
  {<<5, 2, 0, 1>>, <<3, 3, 0, 0>>, <<7, 7, 0, 0>>, <<5, 4, 0, 4>>,
   <<7, 3, 2, 0>>, <<5, 5, 6, 6>>}

Scenes ==
  {<<>>} \cup {<<a>> : a \in SceneObstacles}
         \cup {<<a, b>> : a \in SceneObstacles, b \in SceneObstacles}

PathPoints ==
  {<<2 * c + 1, 2 * r + 1>> : c \in 0..(GridCols - 1), r \in 0..(GridRows - 1)}
    \cup {<<-1, -1>>, <<4, 4>>, <<2 * GridCols, 2 * GridRows>>}

\* grid_path is the cell path A* found for the call, before smoothing (<<>>
\* when A* was not run or found none)
PFCall(op, planner, start_xy, goal_xy, path, grid_path) ==
  [op |-> op, planner |-> planner, start_xy |-> start_xy, goal_xy |-> goal_xy,
   path |-> path, grid_path |-> grid_path, ap |-> NoAutopilot, action |-> "IDLE"]

InitPath ==
  /\ IdleLoop
  /\ comp \in {PFCall("request", PathPlanner(GridRows, GridCols, obstacles),
                      start_xy, goal_xy, <<>>, <<>>) :
                 obstacles \in Scenes, start_xy \in PathPoints,
                 goal_xy \in PathPoints}

FindPath ==
  /\ comp.op = "request"
  /\ \E start_rc \in {_world_to_grid(comp.planner, comp.start_xy[1],
                                      comp.start_xy[2])},
        goal_rc \in {_world_to_grid(comp.planner, comp.goal_xy[1],
                                     comp.goal_xy[2])} :
       comp' = [comp EXCEPT !.op = "find_path",
                            !.path = find_path(comp.planner, comp.start_xy,
                                               comp.goal_xy),
                            !.grid_path = IF start_rc = goal_rc THEN <<>>
                                          ELSE _astar(comp.planner, start_rc,
                                                      goal_rc)]

\* Autopilot.__init__ with the path the planner has returned for its start
\* and target
NewAutopilot ==
  /\ comp.op = "find_path"
  /\ comp' = [comp EXCEPT !.op = "Autopilot",
                          !.ap = Autopilot("goal", comp.goal_xy, comp.path)]

\* the first update, with the robot still at the start
FirstUpdate ==
  /\ comp.op = "Autopilot"
  /\ \E heading \in Headings :
       LET u == autopilot_update(comp.ap, comp.start_xy, heading)
       IN  comp' = [comp EXCEPT !.op = "update", !.ap = u.ap, !.action = u.action]

NextPath ==
  /\ FindPath \/ NewAutopilot \/ FirstUpdate
  /\ UNCHANGED <<loop, out, hist>>

SpecPath == InitPath /\ [][NextPath]_vars

(***************************************************************************)
(* SpecFusion: one CommandFusion and its state machine on their own.  Each *)
(* step is one call of update, dt after the previous one, or of reset.     *)
(***************************************************************************)
MaxTimeFusion == 12

FusionBrains ==
  {NoBrain, Brain("Relax"), Brain("Left Fist"),
   [label |-> "Right Fist", gated |-> TRUE]}

FusionVoices == {NoVoice, Direct("STOP"), Navigate("Table")}

FusionDts == {1, 3}

FCall(op, before, after, brain_result, voice_command, now, fused) ==
  [op |-> op, before |-> before, fusion |-> after.fusion, sm |-> after.sm,
   brain_result |-> brain_result, voice_command |-> voice_command, now |-> now,
   fused |-> fused]

InitFusion ==
  /\ IdleLoop
  /\ comp = FCall("init", [fusion |-> CommandFusion, sm |-> GearStateMachine],
                  [fusion |-> CommandFusion, sm |-> GearStateMachine],
                  NoBrain, NoVoice, 0, Fused0)

FusionUpdate ==
  \E brain_result \in FusionBrains, voice_command \in FusionVoices, dt \in FusionDts :
    /\ comp.now + dt <= MaxTimeFusion
    /\ \E u \in {fusion_update(comp.fusion, comp.sm, brain_result, voice_command,
                               comp.now + dt)} :
         comp' = FCall("update", [fusion |-> comp.fusion, sm |-> comp.sm], u,
                       brain_result, voice_command, comp.now + dt, u.fused)

FusionReset ==
  comp' = FCall("reset", [fusion |-> comp.fusion, sm |-> comp.sm],
                [fusion |-> fusion_reset(comp.fusion), sm |-> comp.sm],
                NoBrain, NoVoice, comp.now, Fused0)

NextFusion ==
  /\ FusionUpdate \/ FusionReset
  /\ UNCHANGED <<loop, out, hist>>

SpecFusion == InitFusion /\ [][NextFusion]_vars

(***************************************************************************)
(* SpecGesture: one GestureRecognizer on its own.  Each step is one call   *)
(* of update with a label, dt after the previous call, or of reset.  With  *)
(* each call comp records what the caller has seen so far: pending, the    *)
(* class and time of the last QUICK_CLENCH emitted and not yet followed by *)
(* a DOUBLE_CLENCH or a reset (before the call; lastq after it), the type  *)
(* of the last event emitted (prev_event before the call, last_event after *)
(* it), and first_fist, the first single-fist label fed since a long hold  *)
(* of Both Fists ended.                                                    *)
(***************************************************************************)
MaxTimeGesture == 27

GestureLabels ==
  {None, "Relax", "Left Fist", "Left First", "Right Fist", "Both Fists",
   "Both Firsts", "Tongue Tapping"}

GestureDts == {1, LONG_HOLD_THRESHOLD_S}

NoQuick == [class |-> None, time |-> 0]

FistLabels == {"Left Fist", "Left First", "Right Fist"}

GCall(op, before, u, label, now, pending, lastq, prev_event, first_fist) ==
  [op |-> op, before |-> before, g |-> u.g, label |-> label, now |-> now,
   event |-> u.event, pending |-> pending, lastq |-> lastq,
   prev_event |-> prev_event,
   last_event |-> IF u.event # NoGesture THEN u.event.gesture_type ELSE prev_event,
   first_fist |-> first_fist]

InitGesture ==
  /\ IdleLoop
  /\ comp = GCall("init", GestureRecognizer,
                  [g |-> GestureRecognizer, event |-> NoGesture],
                  None, 0, NoQuick, NoQuick, None, None)

\* the first single-fist label fed while the recognizer waits for the
\* selection that follows a long hold of Both Fists
FirstFist(before, after, label, first_fist) ==
  IF after.state \notin {"AWAITING_SELECT", "AWAITING_RECLENCH"}
       /\ before.state \notin {"AWAITING_SELECT", "AWAITING_RECLENCH"}
    THEN None
  ELSE IF before.state = "HOLDING"
    THEN IF label \in FistLabels THEN label ELSE None
  ELSE IF first_fist = None /\ label \in FistLabels THEN label
  ELSE first_fist

GestureUpdate ==
  \E label \in GestureLabels, dt \in GestureDts :
    /\ comp.now + dt <= MaxTimeGesture
    /\ \E u \in {gesture_update(comp.g, label, comp.now + dt)} :
         comp' = GCall("update", comp.g, u, label, comp.now + dt, comp.lastq,
                       IF u.event.gesture_type = "QUICK_CLENCH"
                         THEN [class |-> u.event.brain_class, time |-> comp.now + dt]
                       ELSE IF u.event.gesture_type = "DOUBLE_CLENCH" THEN NoQuick
                       ELSE comp.lastq,
                       comp.last_event,
                       FirstFist(comp.g, u.g, label, comp.first_fist))

GestureReset ==
  comp' = GCall("reset", comp.g, [g |-> gesture_reset(comp.g), event |-> NoGesture],
                None, comp.now, comp.lastq, NoQuick, None, None)

NextGesture ==
  /\ GestureUpdate \/ GestureReset
  /\ UNCHANGED <<loop, out, hist>>

SpecGesture == InitGesture /\ [][NextGesture]_vars

StopScenario ==
  /\ loop.sm[SelId(loop)].toggled_action = "ROTATE_LEFT"
  /\ ~loop.aps[SelId(loop)].active

\* C1: with toggled_action = ROTATE_LEFT on the selected robot and no
\* autopilot, the tick that pops the voice command STOP emits STOP with
\* source voice; every tick inside the hold window that follows emits STOP
\* with source voice_hold; and the tick after the window has expired, if no
\* gesture completes in it, emits IDLE (and so not ROTATE_LEFT).
C1_VoiceOverrideScenario ==
  [][(out'.op = "tick" /\ StopScenario) =>
       /\ out'.voice = "STOP" =>
            out'.action = "STOP" /\ out'.source = "voice"
       /\ (/\ out'.voice = None
           /\ loop.fusion.last_emitted_action = "STOP"
           /\ loop'.now < loop.fusion.voice_override_until) =>
            out'.action = "STOP" /\ out'.source = "voice_hold"
       /\ (/\ out'.voice = None
           /\ loop.fusion.last_emitted_action = "STOP"
           /\ loop'.now >= loop.fusion.voice_override_until
           /\ out'.fused.source # "brain_gesture") =>
            out'.action = "IDLE"]_vars

\* the first two parts of C1 alone: the STOP tick and the hold window
C1_StopAndHold ==
  [][(out'.op = "tick" /\ StopScenario) =>
       /\ out'.voice = "STOP" =>
            out'.action = "STOP" /\ out'.source = "voice"
       /\ (/\ out'.voice = None
           /\ loop.fusion.last_emitted_action = "STOP"
           /\ loop'.now < loop.fusion.voice_override_until) =>
            out'.action = "STOP" /\ out'.source = "voice_hold"]_vars

\* the state C1's last part is about: the hold of a STOP has expired, the
\* toggle is still ROTATE_LEFT and the tick sustains it
C1_Witness ==
  /\ out.op = "tick" /\ out.voice = None /\ ~out.hold
  /\ hist.last_voice = "STOP"
  /\ loop.fusion.voice_override_until > 0
  /\ loop.now >= loop.fusion.voice_override_until
  /\ out.source = "brain_toggle" /\ out.action = "ROTATE_LEFT"

\* fusion.update maps the command it is given to an action
Mapped(cmd) == _handle_voice_command(GearStateMachine, cmd).action # None

\* C2 as stated: on every fusion.update call made while voice_override_until
\* > now, the source is voice_hold and the action is the one mapped from the
\* most recent voice command.
C2_Original ==
  (out.op = "tick" /\ out.hold) =>
    (out.fused.source = "voice_hold" /\ out.fused.action = hist.last_voice)

\* C2 amended: on every fusion.update call made while voice_override_until >
\* now and given no voice command that maps to an action, the source is
\* voice_hold and the action is the one mapped from the most recent voice
\* command.
C2_VoiceHold ==
  (out.op = "tick" /\ out.hold /\ ~Mapped(out.vc)) =>
    (out.fused.source = "voice_hold" /\ out.fused.action = hist.last_voice)

\* a hold tick that holds STOP over a live ROTATE_LEFT toggle
C2_Witness ==
  /\ out.op = "tick" /\ out.hold /\ out.vc = NoVoice
  /\ out.fused.source = "voice_hold" /\ out.fused.action = "STOP"
  /\ loop.sm[out.selected].toggled_action = "ROTATE_LEFT"

\* C5: the cancel-confirm protocol cancels autopilots only on a second double
\* clench of both fists received within CANCEL_CONFIRM_TIMEOUT_S of the
\* prompt, from the gesture pipeline or from the manual ORCH_CANCEL: the
\* operation that broadcasts cancel_confirm_prompt broadcasts no
\* cancel_confirmed and leaves every autopilot active, and cancel_confirmed
\* is broadcast only while a prompt is pending and no more than the timeout
\* after it.
C5_ConfirmOnlyWithinTimeout ==
  [][/\ Has(loop'.msgs, "cancel_confirm_prompt") =>
          /\ ~Has(loop'.msgs, "cancel_confirmed")
          /\ \A r \in Robots : loop.aps[r].active => loop'.aps[r].active
     /\ Has(loop'.msgs, "cancel_confirmed") =>
          /\ loop.ccp
          /\ loop'.now - loop.cct <= CANCEL_CONFIRM_TIMEOUT_S]_vars

\* a tick whose gesture confirms the cancellation although the prompt is
\* older than the timeout
C5_Witness ==
  /\ out.op = "tick" /\ out.fused.gesture_type = "DOUBLE_CLENCH"
  /\ Has(loop.msgs, "cancel_confirmed")
  /\ loop.now - loop.cct > CANCEL_CONFIRM_TIMEOUT_S

C7_PromptAnswered == (hist.prompt_open => loop.ccp) /\ ~hist.second_prompt

\* a second prompt was broadcast while the first was unanswered
C7_Witness == hist.second_prompt /\ Has(loop.msgs, "cancel_confirm_prompt")

\* C3: after any tick that pops a voice STOP, CANCEL_NAV or EMERGENCY_STOP,
\* the selected robot has no active autopilot, the action queue is empty and
\* waiting_for_arrival is false.
C3_StopClearsNavigation ==
  (out.op = "tick" /\ out.voice \in {"STOP", "CANCEL_NAV", "EMERGENCY_STOP"}) =>
    /\ ~loop.aps[SelId(loop)].active
    /\ loop.aq = <<>>
    /\ ~loop.waiting

\* a tick popped STOP and the selected robot is navigating when it ends
C3_Witness ==
  /\ out.op = "tick" /\ out.voice = "STOP" /\ out.action = "STOP"
  /\ loop.aps[SelId(loop)].active
  /\ Has(loop.msgs, "SEQ_TASK")

IsPrefix(s, u) == Len(s) <= Len(u) /\ s = SubSeq(u, 1, Len(s))

SeqExpected ==
  <<<<"SEQ_NAV", "Conveyor">>, <<"ARRIVED", "Conveyor">>, <<"SEQ_ACT", "GRAB">>,
    <<"SEQ_NAV", "Pallet 2">>, <<"ARRIVED", "Pallet 2">>, <<"SEQ_ACT", "RELEASE">>>>

GripExpected == <<<<"robot_0", "GRAB">>, <<"robot_0", "RELEASE">>>>

C4_Toggle ==
  /\ (comp.sm.toggled_action = None) <=> (comp.sm.toggled_class = None)
  /\ (/\ comp.op = "handle_gesture"
      /\ comp.gesture.gesture_type = "QUICK_CLENCH"
      /\ comp.gesture.brain_class \in {"Left Fist", "Right Fist", "Both Fists"}
      /\ comp.before.gear # "ORCHESTRATE") =>
       LET bc == comp.gesture.brain_class
           action == _resolve_class_to_action(comp.before, bc)
       IN  IF comp.before.toggled_action = action /\ comp.before.toggled_class = bc
             THEN /\ comp.sm.toggled_action = None
                  /\ comp.sm.toggled_class = None
                  /\ comp.result.action = "IDLE"
             ELSE /\ comp.sm.toggled_action = action
                  /\ comp.sm.toggled_class = bc
                  /\ comp.result.action = action

\* a quick clench of Both Fists in NEUTRAL while GRAB is toggled and nothing
\* is held yet: the resolved pair is the current toggle and the call clears it
C4_Witness ==
  /\ comp.op = "handle_gesture"
  /\ comp.gesture = GestureEvent("QUICK_CLENCH", "Both Fists", 0, None)
  /\ comp.before.gear = "NEUTRAL" /\ ~comp.before.holding_item
  /\ comp.before.toggled_action = "GRAB"
  /\ comp.before.toggled_class = "Both Fists"
  /\ comp.sm.toggled_action = None /\ comp.result.action = "IDLE"

\* C9: under any sequence of update and cancel calls on one Autopilot,
\* arrived never changes from true to false, active never changes from false
\* to true, arrived implies not active, and 0 <= wp_index <= len(waypoints).
C9_AutopilotInvariants ==
  /\ [](/\ comp.ap.arrived => ~comp.ap.active
        /\ 0 <= comp.ap.wp_index
        /\ comp.ap.wp_index <= Len(comp.ap.waypoints))
  /\ [][/\ comp.ap.arrived => comp'.ap.arrived
        /\ ~comp.ap.active => ~comp'.ap.active]_vars

\* cancel called on an autopilot that has arrived at the end of a path of
\* three waypoints
C9_Witness ==
  /\ comp.op = "cancel"
  /\ comp.ap.arrived /\ ~comp.ap.active
  /\ Len(comp.ap.waypoints) = 3
  /\ comp.ap.wp_index = 3

\* the cell a point of a returned path maps to
PathCell(i) == _world_to_grid(comp.planner, comp.path[i][1], comp.path[i][2])

\* C10: for every start and goal, each pair of consecutive points of the
\* path find_path returned maps to grid cells whose Bresenham line, end cells
\* included, contains only free cells of the occupancy grid.
C10_SegmentsFree ==
  comp.op = "find_path" =>
    \A i \in 1..(Len(comp.path) - 1) :
      LET cells == LineCells(PathCell(i)[1], PathCell(i)[2],
                             PathCell(i + 1)[1], PathCell(i + 1)[2])
      IN  \A k \in 1..Len(cells) : cells[k] \notin comp.planner.grid

\* a returned path of three points around an obstacle: the first and the
\* last cell do not see each other, and smoothing joined cells that are not
\* neighbours
C10_Witness ==
  /\ comp.op = "find_path"
  /\ Len(comp.path) = 3
  /\ comp.path[1] = comp.start_xy /\ comp.path[3] = comp.goal_xy
  /\ ~_line_of_sight(comp.planner, PathCell(1)[1], PathCell(1)[2],
                     PathCell(3)[1], PathCell(3)[2])
  /\ Abs(PathCell(1)[1] - PathCell(2)[1]) + Abs(PathCell(1)[2] - PathCell(2)[2]) > 2

\* a Tongue Tapping quick clench handled by machine s
TongueTap(s) ==
  handle_gesture(s, GestureEvent("QUICK_CLENCH", "Tongue Tapping", 0, None)).sm

\* the gear after g in the cycle NEUTRAL, FORWARD, REVERSE, ORCHESTRATE
NextGear(g) == GEAR_CYCLE[((GearIndexOf(g) + 1) % Len(GEAR_CYCLE)) + 1]

\* C11: from any gear reached by shift_gear or set_gear, a Tongue Tapping
\* quick clench advances the gear one step in the cycle NEUTRAL -> FORWARD ->
\* REVERSE -> ORCHESTRATE -> NEUTRAL; four of them in a row return the
\* machine to the gear it started from, and from NEUTRAL the gears observed
\* are FORWARD, REVERSE, ORCHESTRATE, NEUTRAL.
C11_GearCycle ==
  /\ (/\ comp.op = "handle_gesture"
      /\ comp.gesture.gesture_type = "QUICK_CLENCH"
      /\ comp.gesture.brain_class = "Tongue Tapping") =>
       comp.sm.gear = NextGear(comp.before.gear)
  /\ LET s1 == TongueTap(comp.sm)
         s2 == TongueTap(s1)
         s3 == TongueTap(s2)
         s4 == TongueTap(s3)
     IN  /\ s4.gear = comp.sm.gear
         /\ <<s1.gear, s2.gear, s3.gear>> =
              <<NextGear(comp.sm.gear), NextGear(NextGear(comp.sm.gear)),
                NextGear(NextGear(NextGear(comp.sm.gear)))>>
         /\ comp.sm.gear = "NEUTRAL" =>
              <<s1.gear, s2.gear, s3.gear, s4.gear>> =
                <<"FORWARD", "REVERSE", "ORCHESTRATE", "NEUTRAL">>

\* a Tongue Tapping quick clench in ORCHESTRATE, a gear that set_gear had
\* set, wraps round to NEUTRAL
C11_Witness ==
  /\ comp.op = "handle_gesture"
  /\ comp.gesture.gesture_type = "QUICK_CLENCH"
  /\ comp.gesture.brain_class = "Tongue Tapping"
  /\ comp.before.gear = "ORCHESTRATE" /\ comp.before.orch.phase = "SELECTING_LANDMARK"
  /\ comp.sm.gear = "NEUTRAL"

\* the label update feeds the recognizer: None for no result or a gated one
FedLabel(brain_result) ==
  IF brain_result # NoBrain /\ ~brain_result.gated THEN brain_result.label ELSE None

\* C12: on each fusion update with no mapped voice command and outside the
\* voice-hold window: if a gesture completes in this call the result has
\* source brain_gesture and the action the state machine returned for it;
\* otherwise, if toggled_action is set, the result is brain_toggle with
\* action toggled_action, on every such call; otherwise it is IDLE with
\* source idle.
C12_Sustain ==
  (/\ comp.op = "update"
   /\ ~Mapped(comp.voice_command)
   /\ ~(comp.now < comp.before.fusion.voice_override_until)) =>
    LET event == gesture_update(comp.before.fusion.gesture,
                                FedLabel(comp.brain_result), comp.now).event
    IN  IF event # NoGesture
          THEN /\ comp.fused.source = "brain_gesture"
               /\ comp.fused.action =
                    handle_gesture(comp.before.sm, event).result.action
        ELSE IF comp.before.sm.toggled_action # None
          THEN /\ comp.fused.source = "brain_toggle"
               /\ comp.fused.action = comp.before.sm.toggled_action
               /\ comp.sm.toggled_action = comp.before.sm.toggled_action
        ELSE comp.fused.source = "idle" /\ comp.fused.action = "IDLE"

\* an update after the hold window of a spoken STOP has passed, with no
\* gesture and ROTATE_LEFT toggled: the toggle is sustained
C12_Witness ==
  /\ comp.op = "update" /\ comp.voice_command = NoVoice
  /\ comp.before.fusion.voice_override_until > 0
  /\ comp.now >= comp.before.fusion.voice_override_until
  /\ comp.before.sm.toggled_action = "ROTATE_LEFT"
  /\ comp.fused.source = "brain_toggle" /\ comp.fused.action = "ROTATE_LEFT"

\* a call of update that ends a hold shorter than QUICK_CLENCH_MAX_S: the
\* recognizer is HOLDING and is fed another class less than
\* QUICK_CLENCH_MAX_S after the hold began
ShortHoldEnds ==
  /\ comp.op = "update"
  /\ comp.before.state = "HOLDING"
  /\ _normalize(comp.label) # comp.before.hold_class
  /\ comp.now - comp.before.hold_start < QUICK_CLENCH_MAX_S

\* the last quick clench emitted, with no DOUBLE_CLENCH since, was of the
\* class whose hold ends now and came less than DOUBLE_CLENCH_WINDOW_S ago
QuickPending ==
  /\ comp.pending.class # None
  /\ comp.pending.class = comp.before.hold_class
  /\ comp.now - comp.pending.time < DOUBLE_CLENCH_WINDOW_S

\* C13: the recognizer emits DOUBLE_CLENCH, and for the class c of the hold,
\* exactly when a hold of c shorter than QUICK_CLENCH_MAX_S ends while the
\* most recent quick clench emitted was also of c, less than
\* DOUBLE_CLENCH_WINDOW_S earlier, with no DOUBLE_CLENCH emitted since;
\* every other short hold that ends is a QUICK_CLENCH, so the short hold
\* that follows a DOUBLE_CLENCH is a QUICK_CLENCH again.
C13_DoubleClench ==
  /\ comp.event.gesture_type = "DOUBLE_CLENCH" <=> (ShortHoldEnds /\ QuickPending)
  /\ comp.event.gesture_type = "DOUBLE_CLENCH" =>
       comp.event.brain_class = comp.before.hold_class
  /\ (ShortHoldEnds /\ ~QuickPending) =>
       /\ comp.event.gesture_type = "QUICK_CLENCH"
       /\ comp.event.brain_class = comp.before.hold_class
  /\ (ShortHoldEnds /\ comp.prev_event = "DOUBLE_CLENCH") =>
       comp.event.gesture_type = "QUICK_CLENCH"

\* a third quick clench of Left Fist released within the window of the
\* second, which was the DOUBLE_CLENCH: a QUICK_CLENCH again
C13_Witness ==
  /\ ShortHoldEnds
  /\ comp.before.hold_class = "Left Fist"
  /\ comp.prev_event = "DOUBLE_CLENCH"
  /\ comp.now <= 6
  /\ comp.event.gesture_type = "QUICK_CLENCH"
  /\ comp.lastq = [class |-> "Left Fist", time |-> comp.now]

\* C14: every SELECT_SEQUENCE event carries a select_direction, "left" or
\* "right" and never absent, and it is "left" exactly when the fist label
\* fed between the long hold of Both Fists and the re-clench (the first one,
\* should several follow each other) was Left Fist or its typo form Left
\* First, whether the hold was released to Relax first or the label changed
\* from Both Fists to the fist directly.
C14_SelectDirection ==
  comp.event.gesture_type = "SELECT_SEQUENCE" =>
    /\ comp.event.select_direction \in {"left", "right"}
    /\ comp.first_fist \in FistLabels
    /\ comp.event.select_direction = "left" <=>
         comp.first_fist \in {"Left Fist", "Left First"}
    /\ comp.event.brain_class = "Both Fists"

\* a long hold of Both Fists that changes to Left First without a release,
\* re-clenched a quarter second later
C14_Witness ==
  /\ comp.op = "update"
  /\ comp.event.gesture_type = "SELECT_SEQUENCE"
  /\ comp.first_fist = "Left First"
  /\ comp.now = LONG_HOLD_THRESHOLD_S + 2
  /\ comp.label = "Both Firsts"
  /\ comp.event.select_direction = "left"

\* C15: handle_gesture returns toggle_changed = TRUE only for a QUICK_CLENCH
\* of a class other than Tongue Tapping handled in a gear other than
\* ORCHESTRATE; for every other gesture type, for a Tongue Tapping
\* QUICK_CLENCH and for every gesture handled in ORCHESTRATE, toggle_changed
\* is FALSE and toggled_action and toggled_class are left as they were.
C15_ToggleChanged ==
  comp.op = "handle_gesture" =>
    /\ comp.result.toggle_changed =>
         /\ comp.gesture.gesture_type = "QUICK_CLENCH"
         /\ comp.gesture.brain_class # "Tongue Tapping"
         /\ comp.before.gear # "ORCHESTRATE"
    /\ (\/ comp.gesture.gesture_type # "QUICK_CLENCH"
        \/ comp.gesture.brain_class = "Tongue Tapping"
        \/ comp.before.gear = "ORCHESTRATE") =>
         /\ ~comp.result.toggle_changed
         /\ comp.sm.toggled_action = comp.before.toggled_action
         /\ comp.sm.toggled_class = comp.before.toggled_class

\* a Left Fist quick clench in ORCHESTRATE with ROTATE_LEFT toggled by Left
\* Fist: the selection cycles and the toggle stays on
C15_Witness ==
  /\ comp.op = "handle_gesture"
  /\ comp.gesture.gesture_type = "QUICK_CLENCH"
  /\ comp.gesture.brain_class = "Left Fist"
  /\ comp.before.gear = "ORCHESTRATE"
  /\ comp.before.toggled_action = "ROTATE_LEFT"
  /\ comp.before.toggled_class = "Left Fist"
  /\ comp.result.orchestration_event = "cycle"
  /\ ~comp.result.toggle_changed
  /\ comp.sm.toggled_action = "ROTATE_LEFT"

\* C16: spoken commands take effect in the order of their push, at most one
\* per tick: while an accepted command pushed earlier still waits in the
\* voice queue, a later push executes nothing, starts no navigation and
\* leaves the waiting commands ahead of its own; a tick takes the waiting
\* command pushed first and does not advance a sequence in the same tick.
C16_PushOrder ==
  [][/\ (out'.op = "push_voice_command" /\ loop.venabled /\ loop.vq # <<>>) =>
          /\ loop'.execs = <<>>
          /\ loop'.aps = loop.aps
          /\ SubSeq(loop'.vq, 1, Len(loop.vq)) = loop.vq
     /\ (out'.op = "tick" /\ hist'.ticks = hist.ticks + 1
           /\ loop.venabled /\ loop.vq # <<>>) =>
          /\ out'.voice = Head(loop.vq).action
          /\ loop'.vq = Tail(loop.vq)
          /\ ~Has(loop'.msgs, "SEQ_NAV") /\ ~Has(loop'.msgs, "SEQ_ACT")]_vars

\* "forward" waits in the voice queue when a sequence that begins with GRAB
\* is pushed: GRAB is executed by the push itself
C16_Witness ==
  /\ out.op = "push_voice_command"
  /\ loop.vq = <<Direct("MOVE_FORWARD")>>
  /\ loop.execs # <<>> /\ loop.execs[1][2] = "GRAB"
  /\ Len(loop.aq) = 2

\* C17: after full_reset, whatever the loop had been through: the gesture
\* recognizer is in its initial state, the voice-hold window is closed, the
\* voice queue, the action queue, the sequential-task queue and the
\* autopilot map are empty, waiting_for_arrival and the pending cancel
\* confirmation are false, the latency history is empty, and every robot is
\* at its default position in gear NEUTRAL with no toggle, robot 0 selected.
C17_FullReset ==
  out.op = "full_reset" =>
    /\ loop.fusion.gesture = GestureRecognizer
    /\ ~(loop.now < loop.fusion.voice_override_until)
    /\ loop.vq = <<>> /\ loop.aq = <<>> /\ loop.seqt = <<>>
    /\ \A r \in Robots : loop.aps[r] = NoAutopilot
    /\ ~loop.waiting /\ ~loop.ccp
    /\ loop.lat = 0
    /\ \A r \in Robots :
         /\ loop.pos[r] = DefaultPositions[r]
         /\ loop.sm[r].gear = "NEUTRAL"
         /\ loop.sm[r].toggled_action = None /\ loop.sm[r].toggled_class = None
    /\ loop.sel = 0

\* a reset that finds robot_2 selected after a select sequence, robot_0 last
\* reported at the table, a hold of Both Fists under way and four latencies
\* kept
C17_Witness ==
  /\ out.op = "full_reset"
  /\ comp.phase = "after"
  /\ comp.before.sel = 2
  /\ comp.before.pos["robot_0"] = FACTORY_WAYPOINTS["Table"]
  /\ comp.before.fusion.gesture.state = "HOLDING"
  /\ comp.before.lat = 4
  /\ loop.sel = 0 /\ loop.lat = 0

\* C18: two runs that each call full_reset and are then given the same
\* inputs (brain labels, spoken and manual commands, pose reports, clock
\* values) execute the same actions and broadcast the same messages in every
\* operation that follows, whatever the first run received before its reset,
\* toggle_brain and toggle_voice included.
C18_ResetDeterminism ==
  comp.phase = "after" =>
    /\ loop.execs = comp.twin.execs
    /\ loop.msgs = comp.twin.msgs

\* after the reset both runs are given a tick with Left Fist and a tick
\* without a label: the run whose brain input had been switched off before
\* the reset executes IDLE where the other executes the toggled ROTATE_LEFT
C18_Witness ==
  /\ comp.phase = "after"
  /\ out.op = "tick"
  /\ ~loop.benabled /\ comp.twin.benabled
  /\ loop.execs = <<<<"robot_0", "IDLE">>>>
  /\ comp.twin.execs = <<<<"robot_0", "ROTATE_LEFT">>>>

\* C19: start_nav with a target name that cannot be resolved returns
\* ok = FALSE with an error and leaves the gear of every robot, the
\* autopilot map and the action queue as they were.
C19_UnresolvedTarget ==
  (out.op = "start_nav" /\ resolve_target(comp.target_name).name = None) =>
    /\ ~comp.raised
    /\ ~comp.ok /\ comp.error
    /\ \A r \in Robots : loop.sm[r].gear = comp.before.sm[r].gear
    /\ loop.aps = comp.before.aps
    /\ loop.aq = comp.before.aq

\* start_nav("charger") while robot_0 navigates to the table with GRAB
\* queued behind it: the call ends in a KeyError
C19_Witness ==
  /\ out.op = "start_nav"
  /\ comp.target_name = "charger"
  /\ comp.raised
  /\ comp.before.aps["robot_0"].active
  /\ comp.before.aq # <<>>
  /\ loop.aps = comp.before.aps /\ loop.aq = comp.before.aq

(***************************************************************************)
(* Euclidean lengths.  A segment between lattice points has length sqrt(n) *)
(* for an integer n, written k * sqrt(m) with m free of squares; the       *)
(* length of a path is then a sum of integer multiples of roots of         *)
(* square-free numbers, and two lengths are compared through the integer   *)
(* coefficients of their difference.  Roots are bracketed between          *)
(* FloorRoot and CeilRoot of m * RootScale^2, so that NoLonger and Longer  *)
(* each hold only when the comparison is certain.                          *)
(***************************************************************************)
RootScale == 1000

SqDist(p, q) == (p[1] - q[1]) * (p[1] - q[1]) + (p[2] - q[2]) * (p[2] - q[2])

\* the largest k with k * k dividing n, for n > 0
SquarePart(n) ==
  LET ks == {k \in 1..n : k * k <= n /\ n % (k * k) = 0}
  IN  CHOOSE k \in ks : \A j \in ks : j <= k

SquareFreePart(n) == n \div (SquarePart(n) * SquarePart(n))

RECURSIVE RootSearch(_, _, _)
RootSearch(n, lo, hi) ==
  IF lo = hi THEN lo
  ELSE LET mid == (lo + hi + 1) \div 2
       IN  IF mid * mid <= n THEN RootSearch(n, mid, hi)
           ELSE RootSearch(n, lo, mid - 1)

FloorRoot(n) == RootSearch(n, 0, 46340)

CeilRoot(n) == IF FloorRoot(n) * FloorRoot(n) = n THEN FloorRoot(n) ELSE FloorRoot(n) + 1

\* the square-free parts met among the segments of a path
Radicands(path) ==
  {SquareFreePart(SqDist(path[i], path[i + 1])) :
     i \in {j \in 1..(Len(path) - 1) : path[j] # path[j + 1]}}

RECURSIVE Coef(_, _, _)
\* the coefficient of sqrt(m) in the length of the path from point i on
Coef(path, m, i) ==
  IF i >= Len(path) THEN 0
  ELSE (IF path[i] # path[i + 1]
           /\ SquareFreePart(SqDist(path[i], path[i + 1])) = m
          THEN SquarePart(SqDist(path[i], path[i + 1])) ELSE 0)
       + Coef(path, m, i + 1)

RECURSIVE BoundSum(_, _, _, _)
\* a bound of RootScale * (length of b - length of a) summed over the
\* radicands ms: the lower bound when lower is TRUE, else the upper bound
BoundSum(a, b, ms, lower) ==
  IF ms = {} THEN 0
  ELSE LET m == CHOOSE x \in ms : TRUE
           d == Coef(b, m, 1) - Coef(a, m, 1)
           root == IF (d >= 0) = lower
                     THEN FloorRoot(m * RootScale * RootScale)
                     ELSE CeilRoot(m * RootScale * RootScale)
       IN  d * root + BoundSum(a, b, ms \ {m}, lower)

\* path a is certainly no longer than path b
NoLonger(a, b) ==
  \/ \A m \in Radicands(a) \cup Radicands(b) : Coef(a, m, 1) = Coef(b, m, 1)
  \/ BoundSum(a, b, Radicands(a) \cup Radicands(b), TRUE) >= 0

\* path a is certainly longer than path b
Longer(a, b) == BoundSum(a, b, Radicands(a) \cup Radicands(b), FALSE) < 0

\* the centres of the cells of a grid path
CellCentres(P, cells) == [i \in 1..Len(cells) |-> _grid_to_world(P, cells[i])]

\* a point find_path leaves or puts at the centre of its cell: the centre
\* itself, or a point in an occupied cell, which is not substituted
AtCentre(P, xy) ==
  \/ is_occupied(P, xy)
  \/ xy = _grid_to_world(P, _world_to_grid(P, xy[1], xy[2]))

\* C20 as stated: every path find_path returns is no longer than the grid
\* path A* found before smoothing.
C20_ReturnedNoLonger ==
  (comp.op = "find_path" /\ comp.grid_path # <<>>) =>
    ~Longer(comp.path, CellCentres(comp.planner, comp.grid_path))

\* C20, amended: smoothing does not lengthen the path.  The smoothed path
\* through the cell centres is no longer than the grid path A* found, and so
\* is every returned path whose ends find_path left at the centres of their
\* cells; an end moved to the literal start_xy or goal_xy is not covered.
C20_SmoothingNoLonger ==
  (comp.op = "find_path" /\ comp.grid_path # <<>>) =>
    /\ NoLonger(CellCentres(comp.planner,
                            _smooth_path(comp.planner, comp.grid_path)),
                CellCentres(comp.planner, comp.grid_path))
    /\ (AtCentre(comp.planner, comp.start_xy)
          /\ AtCentre(comp.planner, comp.goal_xy)) =>
         NoLonger(comp.path, CellCentres(comp.planner, comp.grid_path))

\* a path of three points between two cell centres, round an obstacle, that
\* smoothing made shorter than the grid path
C20_Witness ==
  /\ comp.op = "find_path"
  /\ Len(comp.path) = 3
  /\ Len(comp.grid_path) > 3
  /\ comp.start_xy = _grid_to_world(comp.planner, PathCell(1))
  /\ comp.goal_xy = _grid_to_world(comp.planner, PathCell(3))
  /\ Longer(CellCentres(comp.planner, comp.grid_path), comp.path)

\* C21: on every tick of the loop, whether it delivers a voice command, falls
\* inside the voice-hold window or finds an autopilot active, the gesture
\* recognizer's update is called with the tick's brain label.
C21_GestureFedEveryTick ==
  out.op = "tick" => out.fused.gesture_fed

\* a tick inside the hold window of a spoken STOP: fusion returns voice_hold
\* before it reaches the recognizer, which is still in its initial state
C21_Witness ==
  /\ out.op = "tick" /\ out.hold /\ out.voice = None
  /\ out.fused.source = "voice_hold"
  /\ ~out.fused.gesture_fed
  /\ loop.fusion.gesture = GestureRecognizer

\* C22: CommandFusion.reset clears the gesture recognizer, the toggle of the
\* state machine the fusion drives (toggled_action and toggled_class) and
\* the voice-hold window.
C22_ResetClears ==
  comp.op = "reset" =>
    /\ comp.fusion.gesture = GestureRecognizer
    /\ comp.fusion.voice_override_until = 0
    /\ comp.sm.toggled_action = None
    /\ comp.sm.toggled_class = None

\* a reset while ROTATE_LEFT is toggled and a fist is held: the recognizer
\* is cleared and the toggle is still there
C22_Witness ==
  /\ comp.op = "reset"
  /\ comp.before.sm.toggled_action = "ROTATE_LEFT"
  /\ comp.before.fusion.gesture.state = "HOLDING"
  /\ comp.fusion.gesture = GestureRecognizer
  /\ comp.fusion.voice_override_until = 0
  /\ comp.sm.toggled_action = "ROTATE_LEFT"
  /\ comp.sm.toggled_class = "Left Fist"

\* a call of update during a hold with a different active class
MidHoldChange ==
  /\ comp.op = "update"
  /\ comp.before.state = "HOLDING"
  /\ _is_active(_normalize(comp.label))
  /\ _normalize(comp.label) # comp.before.hold_class

\* the event of a hold of the given duration: its type by the thresholds,
\* its class the class held
EmittedPerDuration(duration) ==
  /\ comp.event.brain_class = comp.before.hold_class
  /\ comp.event.duration_s = duration
  /\ IF duration < QUICK_CLENCH_MAX_S
       THEN comp.event.gesture_type \in {"QUICK_CLENCH", "DOUBLE_CLENCH"}
     ELSE IF duration < LONG_HOLD_THRESHOLD_S
       THEN comp.event.gesture_type = "HOLD_MEDIUM"
     ELSE comp.event.gesture_type = "HOLD_LONG"

\* the new hold: HOLDING the new class from this call on
NewHoldBegun ==
  /\ comp.g.state = "HOLDING"
  /\ comp.g.hold_class = _normalize(comp.label)
  /\ comp.g.hold_start = comp.now

\* a Both Fists hold of at least LONG_HOLD_THRESHOLD_S that changes to one
\* of the two single fists
LongBothToFist ==
  /\ _is_both_fists(comp.before.hold_class)
  /\ comp.now - comp.before.hold_start >= LONG_HOLD_THRESHOLD_S
  /\ _normalize(comp.label) \in {"Left Fist", "Right Fist"}

\* C23 as stated: on every change from one active class to another during a
\* hold, the call emits the event of the first hold per its duration and
\* begins a hold of the new class.
C23_EveryChangeEmits ==
  MidHoldChange =>
    EmittedPerDuration(comp.now - comp.before.hold_start) /\ NewHoldBegun

\* C23, amended: on a change from one active class to another during a hold
\* the call emits the event of the first hold per its duration and begins a
\* hold of the new class timed from this call, except when a Both Fists hold
\* of at least LONG_HOLD_THRESHOLD_S changes to Left Fist or Right Fist:
\* then no event is emitted and the recognizer awaits the re-clench, with
\* the direction of that fist and the window timed from this call.
C23_ChangeEmitsOrSelects ==
  MidHoldChange =>
    IF LongBothToFist
      THEN /\ comp.event = NoGesture
           /\ comp.g.state = "AWAITING_RECLENCH"
           /\ comp.g.select_start = comp.now
           /\ comp.g.select_direction =
                (IF _normalize(comp.label) = "Left Fist" THEN "left" ELSE "right")
      ELSE EmittedPerDuration(comp.now - comp.before.hold_start) /\ NewHoldBegun

\* a Left Fist hold of medium length that changes to Right Fist: HOLD_MEDIUM
\* of Left Fist, and Right Fist held from this call
C23_Witness ==
  /\ MidHoldChange
  /\ comp.before.hold_class = "Left Fist" /\ comp.label = "Right Fist"
  /\ comp.before.hold_start > 0
  /\ comp.event.gesture_type = "HOLD_MEDIUM"
  /\ comp.event.brain_class = "Left Fist"
  /\ comp.g.state = "HOLDING" /\ comp.g.hold_class = "Right Fist"
  /\ comp.g.hold_start = comp.now

\* a call of update that releases a hold: the label fed is no active class
HoldReleased ==
  /\ comp.op = "update"
  /\ comp.before.state = "HOLDING"
  /\ ~_is_active(_normalize(comp.label))

Awaiting(state) == state \in {"AWAITING_SELECT", "AWAITING_RECLENCH"}

AwaitWindow(state) ==
  IF state = "AWAITING_SELECT" THEN SELECT_WINDOW_S ELSE RECLENCH_WINDOW_S

HoldLongBoth == GestureEvent("HOLD_LONG", "Both Fists", LONG_HOLD_THRESHOLD_S, None)

\* C25: while update is called and the recognizer is not reset, a Both Fists
\* hold of at least LONG_HOLD_THRESHOLD_S ends in exactly one HOLD_LONG of
\* Both Fists or one SELECT_SEQUENCE.  The end of such a hold either emits
\* HOLD_LONG at once or starts the wait; nothing is emitted during the wait
\* and its window is not restarted; the first update later than
\* SELECT_WINDOW_S, or RECLENCH_WINDOW_S, after the window began ends the
\* wait with HOLD_LONG of Both Fists, so the recognizer is never found
\* waiting past its window; and the wait ends only with one of the two
\* events.
C25_SelectionEnds ==
  comp.op = "update" =>
    /\ (/\ comp.before.state = "HOLDING"
        /\ _is_both_fists(comp.before.hold_class)
        /\ comp.now - comp.before.hold_start >= LONG_HOLD_THRESHOLD_S
        /\ _normalize(comp.label) # comp.before.hold_class) =>
         \/ Awaiting(comp.g.state) /\ comp.event = NoGesture
         \/ /\ ~Awaiting(comp.g.state)
            /\ comp.event.gesture_type = "HOLD_LONG"
            /\ comp.event.brain_class = "Both Fists"
    /\ (Awaiting(comp.before.state)
          /\ comp.now - comp.before.select_start > AwaitWindow(comp.before.state)) =>
         comp.event = HoldLongBoth /\ ~Awaiting(comp.g.state)
    /\ Awaiting(comp.g.state) =>
         comp.now - comp.g.select_start <= AwaitWindow(comp.g.state)
    /\ (Awaiting(comp.before.state) /\ Awaiting(comp.g.state)) =>
         /\ comp.event = NoGesture
         /\ comp.g.state = comp.before.state =>
              comp.g.select_start = comp.before.select_start
    /\ (Awaiting(comp.before.state) /\ ~Awaiting(comp.g.state)) =>
         \/ comp.event = HoldLongBoth
         \/ /\ comp.event.gesture_type = "SELECT_SEQUENCE"
            /\ comp.event.brain_class = "Both Fists"
            /\ comp.before.state = "AWAITING_RECLENCH"

\* a single fist still held when the re-clench window runs out: the first
\* update past the window emits HOLD_LONG of Both Fists and a hold of the
\* fist begins
C25_Witness ==
  /\ comp.op = "update"
  /\ comp.before.state = "AWAITING_RECLENCH"
  /\ comp.now - comp.before.select_start = RECLENCH_WINDOW_S + 1
  /\ comp.label = "Left Fist"
  /\ comp.event = HoldLongBoth
  /\ comp.g.state = "HOLDING" /\ comp.g.hold_class = "Left Fist"

\* C26: on every tick where the selected robot's autopilot is active when
\* the action is chosen, the action executed on that robot is the one the
\* autopilot's update returned for the robot's position and heading and the
\* source is "autopilot", whatever fusion returned; on every other tick the
\* action and the source are fusion's.
C26_ActionSource ==
  out.op = "tick" =>
    /\ loop.execs # <<>>
    /\ loop.execs[Len(loop.execs)] = <<out.selected, out.action>>
    /\ IF out.sap.active
         THEN /\ out.source = "autopilot"
              /\ out.action = autopilot_update(out.sap, loop.pos[out.selected],
                                               out.heading).action
         ELSE /\ out.source = out.fused.source
              /\ out.action = out.fused.action

\* "forward" is spoken while the robot navigates to the Table and is turned
\* away from it: fusion returns MOVE_FORWARD from voice and the robot is
\* sent ROTATE_LEFT by its autopilot
C26_Witness ==
  /\ out.op = "tick"
  /\ out.sap.active /\ out.sap.target_name = "Table"
  /\ out.fused.source = "voice" /\ out.fused.action = "MOVE_FORWARD"
  /\ out.source = "autopilot" /\ out.action = "ROTATE_LEFT"

\* the robot a logistics task starts before rid: its predecessor among the
\* active robots
PreviousRobot(active, rid) ==
  active[(CHOOSE i \in 1..Len(active) : active[i] = rid) - 1]

\* C27: the robots of a CARRY_TO or STACK_TO task dispatched to several
\* active robots start one at a time: when the loop starts the navigation
\* of a queued robot, the autopilot of the robot of that task started
\* before it is no longer active.
C27_OneAtATime ==
  \A i \in 1..Len(loop.msgs) :
    loop.msgs[i][1] = "SEQ_TASK" =>
      ~loop.aps[PreviousRobot(loop.active, loop.msgs[i][2])].active

\* the tick after a CARRY_TO was dispatched to three robots: robot_1 is
\* started while robot_0 is on its way, robot_2 still queued
C27_Witness ==
  /\ out.op = "tick"
  /\ loop.active = <<"robot_0", "robot_1", "robot_2">>
  /\ \E i \in 1..Len(loop.msgs) : loop.msgs[i] = <<"SEQ_TASK", "robot_1">>
  /\ loop.aps["robot_0"].active /\ ~loop.aps["robot_0"].arrived
  /\ loop.aps["robot_1"].active
  /\ loop.aps["robot_1"].target_name = loop.aps["robot_0"].target_name
  /\ Len(loop.seqt) = 1 /\ loop.seqt[1].robot_id = "robot_2"

\* a DOUBLE_CLENCH of Both Fists handled in ORCHESTRATE gear
OrchDoubleClench ==
  /\ comp.op = "handle_gesture"
  /\ comp.before.gear = "ORCHESTRATE"
  /\ comp.gesture.gesture_type = "DOUBLE_CLENCH"
  /\ _is_both_fists(comp.gesture.brain_class)

\* C28: in ORCHESTRATE gear a DOUBLE_CLENCH of Both Fists in phase
\* SELECTING_LANDMARK steps back to SELECTING_ACTION, and the result carries
\* orchestration_event "cancel", on which the loop cancels the active tasks,
\* only when the phase was already SELECTING_ACTION.
C28_CancelOnlyWithoutSelection ==
  OrchDoubleClench =>
    /\ comp.sm.orch.phase = "SELECTING_ACTION"
    /\ comp.sm.gear = "ORCHESTRATE"
    /\ comp.before.orch.phase = "SELECTING_LANDMARK" =>
         comp.sm.orch.action_index = comp.before.orch.action_index
    /\ comp.result.orchestration_event = "cancel" =>
         comp.before.orch.phase = "SELECTING_ACTION"

\* CARRY_TO is chosen and a landmark is being selected: the double clench
\* steps back to the choice of action and the result says "cancel" as well
C28_Witness ==
  /\ OrchDoubleClench
  /\ comp.before.orch.phase = "SELECTING_LANDMARK"
  /\ comp.before.orch.action_index = 1
  /\ comp.sm.orch.phase = "SELECTING_ACTION"
  /\ comp.sm.orch.action_index = 1
  /\ comp.result.orchestration_event = "cancel"


(***************************************************************************)
(* C29, C30: the tick and the message handlers as concurrent tasks.        *)
(***************************************************************************)
HandlerOps == {"push_voice_command", "push_manual_command", "cancel_nav", "set_gear", "reset"}

\* the state the claim gives to the tick alone; the actuator is seen through
\* the commands the operation has sent to it
LoopOwned(L) == <<L.aq, L.waiting, L.aps, L.sm, L.holding>>

\* C29: a handler that runs while a tick is suspended at an await leaves the
\* action queue, waiting_for_arrival, the autopilot map and the robots' state
\* machines as they are and sends nothing to the actuator; it changes the
\* loop's state only by adding to the voice queue.
C29_HandlersOnlyEnqueue ==
  [][comp.at = "speak" /\ out'.op \in HandlerOps
       => /\ LoopOwned(loop') = LoopOwned(loop)
          /\ loop'.execs = <<>>]_vars

\* a two-step spoken sequence was handled while the tick waited at the await:
\* the handler has loaded the action queue, set waiting_for_arrival and put a
\* new autopilot into the map
C29_Witness ==
  /\ comp.at = "speak"
  /\ out.op = "push_voice_command"
  /\ loop.aq = <<Navigate("Conveyor"), Direct("GRAB")>>
  /\ loop.waiting
  /\ loop.aps["robot_0"].active
  /\ loop.aps["robot_0"].target_name = "Conveyor"

\* C30: no tick waits for a synthesis to complete: whenever a tick has
\* something spoken it goes on to actuation and the state broadcast without
\* awaiting the result.
C30_TickNeverAwaitsSynthesis == comp.at # "speak"

\* the tick has announced the arrival and waits for the synthesis; the action
\* it has decided on has not been sent to the actuator
C30_Witness ==
  /\ comp.at = "speak"
  /\ out.op = "await_speak"
  /\ Has(loop.msgs, "ARRIVED")
  /\ loop.execs = <<>>
  /\ comp.o.source = "autopilot"


(***************************************************************************)
(* C31: Autopilot.update at a waypoint.                                    *)
(***************************************************************************)
SteeringActions == {"ROTATE_LEFT", "ROTATE_RIGHT", "MOVE_FORWARD"}

\* the waypoint the autopilot steers to after the call
CurrentWaypoint == comp.ap.waypoints[comp.ap.wp_index + 1]

\* C31: an update that finds the robot within ARRIVAL_DIST of the current
\* waypoint advances wp_index and evaluates the new current waypoint in the
\* same call: it returns STOP with arrived set when the list is exhausted,
\* and it returns a steering action only towards a waypoint the robot is not
\* within ARRIVAL_DIST of.
C31_SteersToFarWaypoint ==
  comp.op = "update" =>
    /\ comp.action \in SteeringActions =>
         /\ comp.ap.active /\ comp.ap.wp_index < Len(comp.ap.waypoints)
         /\ ~Within(comp.robot_xy, CurrentWaypoint)
    /\ comp.before.active /\ comp.ap.wp_index >= Len(comp.ap.waypoints) =>
         comp.action = "STOP" /\ comp.ap.arrived

\* the update found the robot within ARRIVAL_DIST of the first waypoint and of
\* the second, advanced once and returned a steering action
C31_Witness ==
  /\ comp.op = "update"
  /\ comp.before.active /\ comp.before.wp_index = 0
  /\ Len(comp.ap.waypoints) = 2
  /\ Within(comp.robot_xy, comp.ap.waypoints[1])
  /\ Within(comp.robot_xy, comp.ap.waypoints[2])
  /\ comp.ap.wp_index = 1
  /\ comp.action \in SteeringActions


(***************************************************************************)
(* C32: the orchestration sub-state across a change of gear.               *)
(***************************************************************************)
InOrchestrate(L, r) == L.sm[r].gear = "ORCHESTRATE"

\* C32: whenever a step takes a robot's gear into or out of ORCHESTRATE, by a
\* Tongue Tapping shift, a spoken SHIFT_GEAR or SET_GEAR command, set_gear or
\* the switch to FORWARD of start_nav, the robot's orchestration sub-state
\* after the step is the initial one: phase SELECTING_ACTION, action_index 0,
\* landmark_index 0.
C32_GearChangeResetsOrch ==
  [][\A r \in Robots :
       InOrchestrate(loop, r) # InOrchestrate(loop', r)
         => loop'.sm[r].orch = OrchestrationState]_vars

\* a spoken SHIFT_GEAR has taken robot_0 from ORCHESTRATE round to NEUTRAL
C32_Witness ==
  /\ out.op = "tick"
  /\ out.voice = "SHIFT_GEAR"
  /\ loop.sm["robot_0"].gear = "NEUTRAL"
  /\ loop.sm["robot_0"].gear_index = 0
  /\ loop.sm["robot_0"].orch = OrchestrationState


(***************************************************************************)
(* C33: cycling and confirming the orchestration selection.                *)
(***************************************************************************)
InOrchGesture(gt, classes) ==
  /\ comp.op = "handle_gesture"
  /\ comp.before.gear = "ORCHESTRATE"
  /\ comp.gesture.gesture_type = gt
  /\ comp.gesture.brain_class \in classes

\* the index after one step of cycling through a list of n entries
Cycled(index, n) ==
  IF comp.gesture.brain_class = "Right Fist" THEN (index + 1) % n
  ELSE IF index = 0 THEN n - 1 ELSE index - 1

\* C33: in ORCHESTRATE gear a QUICK_CLENCH of Left Fist or Right Fist changes
\* only the index of the current phase, by one modulo the length of its list;
\* a HOLD_MEDIUM of Both Fists in SELECTING_ACTION only moves the phase to
\* SELECTING_LANDMARK; a HOLD_MEDIUM of Both Fists in SELECTING_LANDMARK
\* returns an orchestration_task whose action and landmark are the list
\* entries at the current action_index and landmark_index, and resets the
\* sub-state to its initial value.
C33_CycleAndConfirm ==
  /\ InOrchGesture("QUICK_CLENCH", {"Left Fist", "Left First", "Right Fist"}) =>
       /\ comp.sm =
            IF comp.before.orch.phase = "SELECTING_ACTION"
              THEN [comp.before EXCEPT !.orch.action_index =
                                         Cycled(@, Len(ORCHESTRATION_ACTIONS))]
              ELSE [comp.before EXCEPT !.orch.landmark_index =
                                         Cycled(@, Len(FACTORY_WAYPOINT_ORDER))]
       /\ comp.result.orchestration_task = NoTask
  /\ InOrchGesture("HOLD_MEDIUM", {"Both Fists", "Both Firsts"}) =>
       IF comp.before.orch.phase = "SELECTING_ACTION"
         THEN /\ comp.sm = [comp.before EXCEPT !.orch.phase = "SELECTING_LANDMARK"]
              /\ comp.result.orchestration_task = NoTask
         ELSE /\ comp.result.orchestration_task.action =
                   ORCHESTRATION_ACTIONS[comp.before.orch.action_index + 1]
              /\ comp.result.orchestration_task.landmark =
                   FACTORY_WAYPOINT_ORDER[comp.before.orch.landmark_index + 1]
              /\ comp.sm = [comp.before EXCEPT !.orch = OrchestrationState]

\* the action cycled back from MOVE_TO to STACK_TO and the landmark cycled on
\* to Table, then the medium hold that dispatches STACK_TO Table
C33_Witness ==
  /\ InOrchGesture("HOLD_MEDIUM", {"Both Fists"})
  /\ comp.before.orch =
       [phase |-> "SELECTING_LANDMARK", action_index |-> 2, landmark_index |-> 3]
  /\ comp.result.orchestration_task.action = "STACK_TO"
  /\ comp.result.orchestration_task.landmark = "Table"
  /\ comp.sm.orch = OrchestrationState


(***************************************************************************)
(* C34: who writes holding_item.                                           *)
(***************************************************************************)
NeutralBothQuick ==
  /\ comp.op = "handle_gesture"
  /\ comp.before.gear = "NEUTRAL"
  /\ comp.gesture.gesture_type = "QUICK_CLENCH"
  /\ _is_both_fists(comp.gesture.brain_class)

\* the action a Both Fists quick clench stands for in NEUTRAL
GripFor(holding_item) == IF holding_item THEN "RELEASE" ELSE "GRAB"

\* handle_gesture leaves holding_item alone, and in NEUTRAL a Both Fists quick
\* clench toggles RELEASE when an item is held and GRAB otherwise
GestureReadsHolding ==
  /\ comp.op = "handle_gesture" => comp.sm.holding_item = comp.before.holding_item
  /\ NeutralBothQuick =>
       LET grip == GripFor(comp.before.holding_item)
       IN  IF /\ comp.before.toggled_action = grip
              /\ comp.before.toggled_class = comp.gesture.brain_class
             THEN comp.sm.toggled_action = None /\ comp.result.action = "IDLE"
             ELSE comp.sm.toggled_action = grip /\ comp.result.action = grip

\* C34: handle_gesture never modifies holding_item; in NEUTRAL gear a Both
\* Fists QUICK_CLENCH resolves to RELEASE iff holding_item is true and to GRAB
\* otherwise; holding_item changes only when the loop copies the holding
\* field the actuator returned.
C34_HoldingOnlyCopied ==
  /\ GestureReadsHolding
  /\ comp.sm.holding_item # comp.before.holding_item => comp.op = "holding"

\* reset called on a machine that holds an item
C34_Witness ==
  /\ comp.op = "reset"
  /\ comp.before.holding_item
  /\ ~comp.sm.holding_item


(***************************************************************************)
(* C35: the waypoint list of a new Autopilot.                              *)
(***************************************************************************)
Constructed == comp.op \in {"Autopilot", "update"}

\* C35: after construction an Autopilot's waypoint list is never empty: it is
\* the path the planner returned, and exactly [target_xy] when the planner
\* returned no path, so that the autopilot, while active, steers towards the
\* target itself.
C35_WaypointsNeverEmpty ==
  Constructed =>
    /\ comp.ap.waypoints # <<>>
    /\ comp.ap.waypoints = IF comp.path = <<>> THEN <<comp.goal_xy>> ELSE comp.path
    /\ comp.path = <<>> /\ comp.ap.active =>
         /\ comp.ap.wp_index = 0
         /\ comp.ap.waypoints[comp.ap.wp_index + 1] = comp.ap.target_xy
         /\ comp.op = "update" => comp.action \in SteeringActions

\* the planner found no path between two different cells and the autopilot
\* built on the target alone has answered its first update by steering
C35_Witness ==
  /\ comp.op = "update"
  /\ comp.path = <<>>
  /\ comp.start_xy # comp.goal_xy
  /\ comp.ap.waypoints = <<comp.goal_xy>>
  /\ comp.ap.active
  /\ comp.action \in SteeringActions


(***************************************************************************)
(* C36: the robots that are not selected.                                  *)
(***************************************************************************)
\* the robot selected when the step began; a tick works on it to its end
SelectedBefore == SelId(loop)

\* r's navigation was ended by the step: cancelled or taken from the map
Cancelled(r) == ~loop'.aps[r].active /\ ~loop'.aps[r].arrived

\* the autopilot of r is as it was in what update writes
Untouched(r) ==
  /\ loop'.aps[r].active
  /\ ~loop'.aps[r].arrived
  /\ loop'.aps[r].wp_index = loop.aps[r].wp_index

\* C36: a tick updates the selected robot's autopilot only and actuates the
\* selected robot only: the autopilot of a robot that is not selected keeps
\* active = true, arrived = false and its wp_index, and the robot's pose does
\* not change, until the robot becomes selected or its autopilot is cancelled.
C36_OthersUntouched ==
  [][\A r \in Robots \ {SelectedBefore} :
       /\ loop'.pos[r] = loop.pos[r]
       /\ loop.aps[r].active /\ r # SelId(loop') => Untouched(r) \/ Cancelled(r)]_vars

\* a dispatch of the step has started a new navigation for r
Restarted(r) ==
  /\ Has(loop'.msgs, "ORCH")
  /\ loop'.aps[r].active /\ ~loop'.aps[r].arrived /\ loop'.aps[r].wp_index = 0

\* C36, amended: the autopilot of a robot that is not selected is left as it
\* is, and the robot's pose does not change, until the robot becomes
\* selected, its autopilot is cancelled, or a dispatched task starts a new
\* navigation for the robot.
C36_OthersUntouchedUnlessRestarted ==
  [][\A r \in Robots \ {SelectedBefore} :
       /\ loop'.pos[r] = loop.pos[r]
       /\ loop.aps[r].active /\ r # SelId(loop')
            => \/ loop'.aps[r] = loop.aps[r]
               \/ Cancelled(r)
               \/ Restarted(r)]_vars

\* a tick has moved robot_0's autopilot on to its second waypoint while
\* robot_1, not selected, stands where it stood with its navigation at the
\* first
C36_Witness ==
  /\ out.op = "tick" /\ out.selected = "robot_0" /\ out.source = "autopilot"
  /\ loop.aps["robot_0"].active /\ loop.aps["robot_0"].wp_index = 1
  /\ loop.aps["robot_1"].active /\ loop.aps["robot_1"].wp_index = 0
  /\ loop.pos["robot_0"] = <<0, 0>>
  /\ loop.pos["robot_1"] = DefaultPositions["robot_1"]


(***************************************************************************)
(* C37: the action queue across the await of an arrival.                   *)
(***************************************************************************)
\* the step in which a suspended tick goes on
TickGoesOn == comp.at = "speak" /\ comp'.at = "idle"

\* the queue waits for a navigation that is under way: its head is a NAVIGATE
\* step and the autopilot in the map, started for it, is active
WaitsForOwnNavigation(L, rid) ==
  /\ L.waiting /\ L.aq # <<>>
  /\ Head(L.aq).action = "NAVIGATE"
  /\ L.aps[rid].active /\ ~L.aps[rid].arrived
  /\ L.aps[rid].target_name = Head(L.aq).target

\* C37: under every interleaving of push_voice_command with a tick suspended
\* at the await of an arrival, a NAVIGATE step leaves the action queue only
\* when the autopilot started for that step has arrived: when the tick goes
\* on while the queue waits for a navigation that is still under way, the
\* queue is left as it is and no step of it is executed.
C37_PopOnlyOnOwnArrival ==
  [][TickGoesOn /\ WaitsForOwnNavigation(loop, comp.o.selected)
       => /\ loop'.aq = loop.aq
          /\ loop'.waiting
          /\ ~Has(loop'.msgs, "SEQ_ACT")]_vars

\* the tick that announced the arrival at the Table has gone on after the
\* sequence [NAVIGATE Conveyor, GRAB] was loaded: the navigation to the
\* Conveyor had just been started, and the tick has emptied the queue and
\* executed GRAB
C37_Witness ==
  /\ out.op = "tick" /\ comp.at = "idle"
  /\ out.sap.target_name = "Table"
  /\ \E i \in 1..Len(loop.msgs) : loop.msgs[i] = <<"SEQ_NAV", "Conveyor">>
  /\ \E i \in 1..Len(loop.msgs) : loop.msgs[i] = <<"SEQ_ACT", "GRAB">>
  /\ \E i \in 1..Len(loop.execs) : loop.execs[i] = <<"robot_0", "GRAB">>
  /\ loop.aq = <<>>


(***************************************************************************)
(* C39: the orchestration task of a tick.                                  *)
(***************************************************************************)
\* the state machine returned an orchestration task in the last tick
TaskReturned == out.op = "tick" /\ out.fused.orchestration_task.action # "None"

\* C39: every orchestration_task the state machine returns in a tick (a
\* HOLD_MEDIUM on Both Fists in SELECTING_LANDMARK, which resets the
\* sub-state) is dispatched by the loop in that tick, also when the
\* autopilot of the selected robot was active in it.
C39_TaskDispatchedInSameTick == TaskReturned => Has(loop.msgs, "ORCH")

\* a tick in which the autopilot of the selected robot steered while the
\* state machine confirmed a landmark: the task is in the fusion's result,
\* the sub-state is back at SELECTING_ACTION, and nothing was dispatched
C39_Witness ==
  /\ TaskReturned
  /\ out.source = "autopilot"
  /\ out.fused.gesture_type = "HOLD_MEDIUM"
  /\ out.fused.orchestration_event = "dispatch"
  /\ loop.sm[out.selected].gear = "ORCHESTRATE"
  /\ loop.sm[out.selected].orch.phase = "SELECTING_ACTION"
  /\ ~Has(loop.msgs, "ORCH")


(***************************************************************************)
(* SpecWait: the loop in the long run.  A spoken sequence that begins with *)
(* a navigation, cancel_nav from a client, and ticks without end: run()    *)
(* (lines 889-897) calls tick again after each sleep for as long as the    *)
(* loop is running, which is the fairness of TickWait.                     *)
(***************************************************************************)
MaxQueueWait == 1

WaitBrains == {NoBrain, Brain("Relax")}

WaitDts == {3, 9}

WaitSequences ==
  {<<Navigate("Table"), Direct("GRAB")>>, <<Direct("STOP")>>}

WaitEnvs ==
  {[pos |-> p, heading |-> "aligned", plan |-> "goal"] :
     p \in {<<0, 0>>, FACTORY_WAYPOINTS["Table"]}}

InitWait ==
  /\ loop = [ControlLoop(<<"robot_0">>) EXCEPT !.now = ClockAtStart,
                                                !.lat = LatencyWindow]
  /\ out = Out0
  /\ hist = Hist0
  /\ comp = None

TickWait ==
  \E brain \in WaitBrains, dt \in WaitDts, env \in WaitEnvs :
    SteadyTick(loop, brain, dt, env)

PushVoiceWait == Paced /\ PushVoice(WaitSequences, WaitEnvs, MaxQueueWait)

CancelNavWait == Paced /\ CancelNav

NextWait == TickWait \/ PushVoiceWait \/ CancelNavWait

SpecWait == InitWait /\ [][NextWait]_vars /\ WF_vars(TickWait)

\* _waiting_for_arrival with a NAVIGATE step at the head of the queue
WaitingForArrival(L) ==
  L.waiting /\ L.aq # <<>> /\ Head(L.aq).action = "NAVIGATE"

\* the queue waits and no autopilot is active
Unserved(L) == WaitingForArrival(L) /\ ~HasActiveNav(L)

\* C38: a queue that waits for an arrival with no active autopilot serving
\* it (after cancel_nav, the double-clench cancellation or a change of the
\* selected robot) does not wait for ever: under continued ticks the wait
\* ends, by the step advancing or the queue being cleared.
C38_WaitEnds == Unserved(loop) ~> ~WaitingForArrival(loop)

\* cancel_nav has removed the autopilot of a waiting sequence, and a tick
\* has run since: the queue still waits, with its NAVIGATE step at the head
C38_Witness ==
  /\ out.op = "tick"
  /\ Unserved(loop)
  /\ loop.aps["robot_0"] = NoAutopilot
  /\ Len(loop.aq) = 2


(***************************************************************************)
(* SpecSelect: three robots and the brain labels of the select sequence    *)
(* (a long Both Fists hold, Left Fist, the Both Fists re-clench) followed  *)
(* by the end of the re-clench.                                            *)
(***************************************************************************)
MaxTimeSelect == 44

MaxTicksSelect == 5

SelectBrains == {Brain("Both Fists"), Brain("Left Fist"), Brain("Relax")}

SelectDts == {1, 7, 17}

InitSelect == InitLoop({<<"robot_0", "robot_1", "robot_2">>}, FALSE)

TickSelect == Tick(SelectBrains, SelectDts, {Env0}, MaxTimeSelect, MaxTicksSelect)

NextSelect == TickSelect

SpecSelect == InitSelect /\ [][NextSelect]_vars

\* the last operation was a tick whose gesture event was SELECT_SEQUENCE
SelectEmitted == out.op = "tick" /\ out.fused.gesture_type = "SELECT_SEQUENCE"

\* the recognizer holds Both Fists since the clock reading t
HoldsBothSince(g, t) ==
  g.state = "HOLDING" /\ g.hold_class = "Both Fists" /\ g.hold_start = t

\* the next tick ends the hold of the re-clench
ReclenchEnds ==
  /\ SelectEmitted /\ out'.op = "tick"
  /\ ~HoldsBothSince(loop'.fusion.gesture, loop.fusion.gesture.hold_start)

\* the machine s after the event of the tick, but for the holding flag the
\* tick copies at its end
AppliedTo(s, fused, d) ==
  handle_gesture(s, GestureEvent(fused.gesture_type, fused.brain_class, d, None)).sm

SameButHolding(s, t) == [s EXCEPT !.holding_item = t.holding_item] = t

\* the tick's fused result is an event of Both Fists of one of these types,
\* applied to the machine of the robot selected before the tick; the other
\* machines are as they were
EventForSelected(types) ==
  LET d == loop'.now - loop.fusion.gesture.hold_start
      new == SelId(loop)
  IN  /\ out'.fused.source = "brain_gesture"
      /\ out'.fused.gesture_type \in types
      /\ out'.fused.brain_class = "Both Fists"
      /\ out'.selected = new
      /\ SameButHolding(AppliedTo(loop.sm[new], out'.fused, d), loop'.sm[new])
      /\ \A r \in Robots \ {new} : loop'.sm[r] = loop.sm[r]

\* the long-hold path of a Both Fists hold: the select sequence is entered
\* again with no event, or HOLD_LONG is emitted
LongHoldPath ==
  \/ /\ loop'.fusion.gesture.state \in {"AWAITING_SELECT", "AWAITING_RECLENCH"}
     /\ loop'.fusion.gesture.select_start = loop'.now
     /\ out'.fused.source # "brain_gesture"
  \/ EventForSelected({"HOLD_LONG"})

\* C40: after SELECT_SEQUENCE the recognizer is in HOLDING on Both Fists with
\* the hold timed from the tick of the re-clench, and the tick in which that
\* hold ends emits the event of its duration (QUICK_CLENCH or DOUBLE_CLENCH,
\* HOLD_MEDIUM, or the long-hold path), which the fusion applies to the
\* state machine of the robot the sequence has just selected.
C40_ReclenchIsNewHold ==
  [][/\ SelectEmitted' => HoldsBothSince(loop'.fusion.gesture, loop'.now)
     /\ ReclenchEnds =>
          LET d == loop'.now - loop.fusion.gesture.hold_start
          IN  IF d < QUICK_CLENCH_MAX_S
                THEN EventForSelected({"QUICK_CLENCH", "DOUBLE_CLENCH"})
              ELSE IF d < LONG_HOLD_THRESHOLD_S
                THEN EventForSelected({"HOLD_MEDIUM"})
              ELSE LongHoldPath]_vars

\* the select sequence moved the selection from robot_0 to robot_2, and the
\* quick release of the re-clench has toggled GRAB on robot_2's machine
C40_Witness ==
  /\ out.op = "tick" /\ out.selected = "robot_2"
  /\ out.fused.gesture_type = "QUICK_CLENCH"
  /\ out.fused.brain_class = "Both Fists"
  /\ loop.sm["robot_2"].toggled_action = "GRAB"
  /\ loop.sm["robot_0"].toggled_action = None
  /\ hist.ticks = 4

====
